---------------------------- MODULE Spec2Model ----------------------------
(***************************************************************************)
(* Model of the tmux session driver of agent-orchestrator (package tmux,   *)
(* src/main.go lines 1167-1622): the output-stabilization poller, the      *)
(* readiness gate, the session lifecycle manager and send-with-recovery.   *)
(*                                                                         *)
(* Time is in milliseconds.  A tmux command or a capture is one atomic     *)
(* step of the program; the environment (the inner process, an operator    *)
(* killing the session or the server) acts between the steps.              *)
(***************************************************************************)
EXTENDS Integers, Sequences, FiniteSets, TLC

VARIABLES
    pc,      \* position of the program: the next step to run
    stack,   \* return positions of the calls in progress
    now,     \* the clock, as time.Now() reads it; its origin is the start of
             \* the timed wait in progress (the poller, or the readiness
             \* gate), before which no deadline is pending
    ret,     \* the (value, error) pair returned by the call that ended last
    loc,     \* the local variables of the functions in progress
    hist,    \* observer: what the captures of the current wait returned
    env,     \* the tmux server of the private socket, its session and pane
    budget,  \* how many more times the environment may act (in the runs of
             \* runWithCleanup: the position of the signal goroutine)
    gh       \* observer: what the current top-level call has done so far

vars == <<pc, stack, now, ret, loc, hist, env, budget, gh>>

-----------------------------------------------------------------------------
(* Program constants (ms).                                                 *)

PollInterval == 500

StableWindow == 2000

(* Bounds of the model.                                                    *)

\* the longest timeout handed to the poller, in poll intervals
MaxTimeoutPolls == 6

\* the longest time a capture takes to return
CaptureDelay == 300

\* the longest time a sleep overshoots its duration
SleepJitter == 200

\* The texts a pane can show.  They are opaque: only equality is used.
PaneTexts == {"p0", "p1", "p2"}

-----------------------------------------------------------------------------
(* Errors.  An error is its message, and all the program ever does with a  *)
(* message is search it for fixed phrases, so a message is modelled as the *)
(* set of the phrases it contains.  Wrapping an error with %w or %v keeps  *)
(* the phrases of the wrapped message and adds those of the wrapper.       *)

Nil == [nil |-> TRUE, ph |-> {}]

Err(phrases) == [nil |-> FALSE, ph |-> phrases]

Wrap(phrases, err) == [nil |-> FALSE, ph |-> phrases \cup err.ph]

\* strings.Contains(err.Error(), phrase)
Contains(err, phrase) == phrase \in err.ph

\* an error whose message holds none of the phrases the program looks for
OtherError == Err({"other"})

-----------------------------------------------------------------------------
(* WaitForPaneUpdateWithCapture                                            *)

\* line 1343: the success test of a poll whose capture equals last
WaitStableNoWindow(pane, previous, since, t) == pane # previous

WaitStable(pane, previous, since, t) ==
    pane # previous /\ t - since >= StableWindow

\* lines 1350-1360: the error reported once the deadline has passed
WaitTimeoutErrorNoLiveness(last, previous, alive, aliveErr) ==
    IF last = previous
    THEN Err({"still working", "no pane changes"})
    ELSE Err({"did not stabilize"})

WaitTimeoutErrorAlwaysDead(last, previous, alive, aliveErr) ==
    IF last = previous
    THEN Err({"process is dead", "no pane changes"})
    ELSE Err({"did not stabilize"})

WaitTimeoutError(last, previous, alive, aliveErr) ==
    IF last = previous
    THEN IF ~aliveErr.nil
         THEN Wrap({"liveness check failed"}, aliveErr)
         ELSE IF ~alive
              THEN Err({"process is dead", "no pane changes"})
              ELSE Err({"still working", "no pane changes"})
    ELSE Err({"did not stabilize"})

\* what a call returns to its caller
Return(val, err) ==
    /\ pc' = Head(stack)
    /\ stack' = Tail(stack)
    /\ ret' = [val |-> val, err |-> err]

\* The observer before the first capture of a wait.
NoHist == [n |-> 0, text |-> "", runStart |-> 0, at |-> 0, changed |-> FALSE,
           allDiffer |-> TRUE, failed |-> FALSE, alive |-> "unasked"]

\* lines 1331-1333
WaitEnter ==
    /\ pc = "w_enter"
    /\ now' = 0
    /\ loc' = [loc EXCEPT !.deadline = now' + loc.timeout,
                          !.last = loc.previous,
                          !.stableSince = now']
    /\ pc' = "w_loop"
    /\ hist' = NoHist
    /\ UNCHANGED <<stack, ret, env, budget, gh>>

\* line 1335: the loop test
WaitLoop ==
    /\ pc = "w_loop"
    /\ pc' = IF now < loc.deadline THEN "w_capture" ELSE "w_deadline"
    /\ UNCHANGED <<stack, now, ret, loc, hist, env, budget, gh>>

\* The observer's record of a capture that returned pane at time t.
Observe(pane, t) ==
    [n         |-> hist.n + 1,
     text      |-> pane,
     runStart  |-> IF hist.n > 0 /\ hist.text = pane THEN hist.runStart ELSE t,
     at        |-> t,
     changed   |-> hist.changed \/ pane # loc.previous,
     allDiffer |-> hist.allDiffer /\ (hist.n > 0 => hist.text # pane),
     failed    |-> hist.failed,
     alive     |-> hist.alive]

\* lines 1336-1345: one poll, given what capture() returned after d ms
WaitPoll(pane, err, d) ==
    /\ pc = "w_capture"
    /\ now' = now + d
    /\ IF ~err.nil
       THEN /\ Return("", err)
            /\ hist' = [hist EXCEPT !.failed = TRUE]
            /\ UNCHANGED loc
       ELSE /\ hist' = Observe(pane, now')
            /\ IF pane # loc.last
               THEN /\ loc' = [loc EXCEPT !.last = pane, !.stableSince = now']
                    /\ pc' = "w_sleep"
                    /\ UNCHANGED <<stack, ret>>
               ELSE IF WaitStable(pane, loc.previous, loc.stableSince, now')
                    THEN /\ Return(pane, Nil)
                         /\ UNCHANGED loc
                    ELSE /\ pc' = "w_sleep"
                         /\ UNCHANGED <<stack, ret, loc>>

\* line 1347
WaitSleep(jitter) ==
    /\ pc = "w_sleep"
    /\ now' = now + PollInterval + jitter
    /\ pc' = "w_loop"
    /\ UNCHANGED <<stack, ret, loc, hist>>

\* lines 1350-1360, given what checkAlive() returns if it is called
WaitDeadline(alive, aliveErr) ==
    /\ pc = "w_deadline"
    /\ Return(loc.last, WaitTimeoutError(loc.last, loc.previous, alive, aliveErr))
    /\ hist' = [hist EXCEPT !.alive = IF ~aliveErr.nil THEN "error"
                                      ELSE IF alive THEN "alive" ELSE "dead"]
    /\ UNCHANGED <<now, loc>>

-----------------------------------------------------------------------------
(* The poller on its own, as the unit tests drive it: capture and          *)
(* checkAlive are injected functions that may return anything.             *)

Timeouts == {k * PollInterval : k \in 0..MaxTimeoutPolls} \cup {PollInterval \div 2}

InitWait ==
    /\ pc = "w_enter"
    /\ stack = <<"done">>
    /\ now = 0
    /\ ret = [val |-> "", err |-> Nil]
    /\ \E previous \in PaneTexts, timeout \in Timeouts :
         loc = [previous |-> previous, timeout |-> timeout, deadline |-> 0,
                last |-> previous, stableSince |-> 0]
    /\ hist = NoHist
    /\ env = [server |-> FALSE]
    /\ budget = 0
    /\ gh = [calls |-> 0]

WaitCaptureOk ==
    /\ \E pane \in PaneTexts, d \in {0, CaptureDelay} : WaitPoll(pane, Nil, d)
    /\ UNCHANGED <<env, budget, gh>>

WaitCaptureFails ==
    /\ \E d \in {0, CaptureDelay} : WaitPoll("", OtherError, d)
    /\ UNCHANGED <<env, budget, gh>>

WaitSleeps ==
    /\ \E j \in {0, SleepJitter} : WaitSleep(j)
    /\ UNCHANGED <<env, budget, gh>>

WaitDeadlineAlive ==
    /\ \E alive \in BOOLEAN : WaitDeadline(alive, Nil)
    /\ UNCHANGED <<env, budget, gh>>

WaitDeadlineCheckFails ==
    /\ WaitDeadline(FALSE, OtherError)
    /\ UNCHANGED <<env, budget, gh>>

NextWait ==
    \/ WaitEnter
    \/ WaitLoop
    \/ WaitCaptureOk
    \/ WaitCaptureFails
    \/ WaitSleeps
    \/ WaitDeadlineAlive
    \/ WaitDeadlineCheckFails

SpecWait == InitWait /\ [][NextWait]_vars

-----------------------------------------------------------------------------
(* The tmux server on the private socket.  It holds at most the one named  *)
(* session, whose window has one pane running the startup command.         *)
(*   server     the server process runs                                    *)
(*   sess       the session exists                                         *)
(*   dead       the pane's process has exited (the pane is kept)           *)
(*   status     the exit status of the dead pane                           *)
(*   text       what capture-pane prints                                   *)
(*   remain     the window option remain-on-exit is on                     *)
(*   exitEmpty  the server option exit-empty is on (tmux's default)        *)
(*   gen        how many sessions were created so far: the session's       *)
(*              identity                                                   *)
(*   fault      the next tmux command fails for a reason of its own        *)

NoServer(e) ==
    [server |-> FALSE, sess |-> FALSE, dead |-> FALSE, status |-> 0,
     text |-> "p0", remain |-> FALSE, exitEmpty |-> TRUE, gen |-> e.gen,
     fault |-> e.fault]

\* the session is gone; a server with exit-empty on goes with its last session
NoSession(e) ==
    IF e.exitEmpty
    THEN NoServer(e)
    ELSE [e EXCEPT !.sess = FALSE, !.dead = FALSE, !.status = 0,
                   !.text = "p0", !.remain = FALSE]

\* tmux's client when it cannot reach a server: ECONNREFUSED on a stale
\* socket, or any other connect error
DownErrors == {Err({"no server running"}), Err({"error connecting to"})}

\* tmux names a missing target by the kind of target the command takes
MissingSession == {Err({"can't find session"})}

MissingPane == {Err({"can't find session"}), Err({"can't find pane"})}

\* lines 1576-1583, RunTmux and the two exec.Command callers: the outcomes
\* [err, env, out] of a command that needs the session, and that succeeds
\* with output out leaving the server as after
TmuxOn(e, missing, after, out) ==
    IF e.fault
    THEN {[err |-> OtherError, env |-> [e EXCEPT !.fault = FALSE], out |-> ""]}
    ELSE IF ~e.server
    THEN {[err |-> d, env |-> e, out |-> ""] : d \in DownErrors}
    ELSE IF ~e.sess
    THEN {[err |-> m, env |-> e, out |-> ""] : m \in missing}
    ELSE {[err |-> Nil, env |-> after, out |-> out]}

TmuxHasSessionCmd(e) == TmuxOn(e, MissingSession, e, "")

TmuxKillSession(e) == TmuxOn(e, MissingSession, NoSession(e), "")

TmuxSetRemainOnExit(e) == TmuxOn(e, MissingPane, [e EXCEPT !.remain = TRUE], "")

TmuxSendKeys(e) == TmuxOn(e, MissingPane, e, "")

TmuxCapturePane(e) == TmuxOn(e, MissingPane, e, e.text)

TmuxListPanes(e) ==
    TmuxOn(e, MissingPane, e, [dead |-> e.dead, status |-> e.status])

\* set-option -g exit-empty off needs a server, not a session
TmuxSetExitEmptyOff(e) ==
    IF e.fault
    THEN {[err |-> OtherError, env |-> [e EXCEPT !.fault = FALSE], out |-> ""]}
    ELSE IF ~e.server
    THEN {[err |-> d, env |-> e, out |-> ""] : d \in DownErrors}
    ELSE {[err |-> Nil, env |-> [e EXCEPT !.exitEmpty = FALSE], out |-> ""]}

\* new-session -d -s: starts the server if needed; a second session of the
\* same name is refused
TmuxNewSession(e) ==
    IF e.fault
    THEN {[err |-> OtherError, env |-> [e EXCEPT !.fault = FALSE], out |-> ""]}
    ELSE IF e.server /\ e.sess
    THEN {[err |-> Err({"duplicate session"}), env |-> e, out |-> ""]}
    ELSE {[err |-> Nil, out |-> "",
           env |-> [server |-> TRUE, sess |-> TRUE, dead |-> FALSE,
                    status |-> 0, text |-> "p0", remain |-> FALSE,
                    exitEmpty |-> e.exitEmpty, gen |-> e.gen + 1,
                    fault |-> FALSE]]}

\* lines 1436-1442
isTmuxNotFoundErrorSessionOnly(err) == Contains(err, "can't find session")

isTmuxNotFoundError(err) ==
    \/ Contains(err, "can't find session")
    \/ Contains(err, "no server running")
    \/ Contains(err, "no current target")
    \/ Contains(err, "error connecting to")

\* lines 1423-1432: the outcomes [ok, err, env]
tmuxHasSession(e) ==
    {[ok  |-> r.err.nil,
      err |-> IF r.err.nil \/ isTmuxNotFoundError(r.err) THEN Nil ELSE r.err,
      env |-> r.env] : r \in TmuxHasSessionCmd(e)}

\* lines 1445-1452 (ParsePaneStateLine reads the line tmux prints back into
\* the pane's dead flag and exit status): the outcomes [dead, status, err, env]
tmuxPaneState(e) ==
    {[dead   |-> IF r.err.nil THEN r.out.dead ELSE FALSE,
      status |-> IF r.err.nil THEN r.out.status ELSE 0,
      err    |-> IF r.err.nil THEN Nil ELSE Wrap({"tmuxPaneState"}, r.err),
      env    |-> r.env] : r \in TmuxListPanes(e)}

\* lines 1566-1573: the outcomes [text, err, env]
CapturePane(e) ==
    {[text |-> IF r.err.nil THEN r.out ELSE "",
      err  |-> IF r.err.nil THEN Nil ELSE Wrap({"CapturePane"}, r.err),
      env  |-> r.env] : r \in TmuxCapturePane(e)}

\* lines 1526-1537
ShouldRecoverSession(err) ==
    /\ ~err.nil
    /\ \/ Contains(err, "no server running")
       \/ Contains(err, "can't find session")
       \/ Contains(err, "session not ready")
       \/ Contains(err, "exited during startup")
       \/ Contains(err, "exited shortly after startup")
       \/ Contains(err, "startup process exited")

-----------------------------------------------------------------------------
(* Program constants of the session manager (ms).                          *)

runtimeReadyTTL == 10000

StartupSettleWindow == 1500

KeystrokeSleep == 500

MaxSendRetries == 2

\* the sleep between two rounds of the readiness gate
ReadyRetrySleep == 250

\* the sleep between two has-session polls of the settle window
AliveSleep == 200

(* Bounds of the model.                                                    *)

\* The timeout of the wait in SendAndCaptureWithRecovery, in poll intervals
\* (the program waits 90 s, 180 polls).
SendWaitPolls == 6

\* how many times the environment acts in one behaviour
MaxEnvEvents == 2

\* how many top-level calls one behaviour makes
MaxCalls == 2

SendWaitTimeout == SendWaitPolls * PollInterval

ExitStatuses == {0, 1}

\* the baseline texts the callers pass: the text last returned, or another
LastPanes == {"p0", "p1"}

NoLocals ==
    [previous |-> "p0", timeout |-> 0, deadline |-> 0, last |-> "p0",
     stableSince |-> 0, attempt |-> 0, lastErr |-> Nil, lastPane |-> "p0",
     rDeadline |-> 0, rLastErr |-> Nil, aDeadline |-> 0]

\* The locals of the poller and of the readiness gate are gone once these
\* have returned.
Forget(l) ==
    [l EXCEPT !.previous = "p0", !.timeout = 0, !.deadline = 0, !.last = "p0",
              !.stableSince = 0, !.rDeadline = 0, !.rLastErr = Nil,
              !.aDeadline = 0]

Call(target, back) ==
    /\ pc' = target
    /\ stack' = <<back>> \o stack
    /\ UNCHANGED ret

Goto(target) ==
    /\ pc' = target
    /\ UNCHANGED <<stack, ret>>

-----------------------------------------------------------------------------
(* createSession, lines 1542-1550                                          *)

CreateNewSession ==
    /\ pc = "c_new"
    /\ \E r \in TmuxNewSession(env) :
         /\ env' = r.env
         /\ IF r.err.nil
            THEN Goto("c_exitempty")
            ELSE Return("", Wrap({"createSession"}, r.err))
    /\ gh' = [gh EXCEPT !.creates = @ + 1]
    /\ UNCHANGED <<now, loc, hist, budget>>

\* setTmuxServerOptions, lines 1237-1242
CreateSetServerOptions ==
    /\ pc = "c_exitempty"
    /\ \E r \in TmuxSetExitEmptyOff(env) :
         /\ env' = r.env
         /\ IF r.err.nil
            THEN Goto("c_remain")
            ELSE Return("", Wrap({"setTmuxServerOptions"}, r.err))
    /\ UNCHANGED <<now, loc, hist, budget, gh>>

\* configureSession, lines 1245-1251
CreateConfigureSession ==
    /\ pc = "c_remain"
    /\ \E r \in TmuxSetRemainOnExit(env) :
         /\ env' = r.env
         /\ IF r.err.nil
            THEN Return("", Nil)
            ELSE Return("", Wrap({"configureSession"}, r.err))
    /\ UNCHANGED <<now, loc, hist, budget, gh>>

-----------------------------------------------------------------------------
(* restartClaudeSession, lines 1553-1563                                   *)

\* line 1555: a failed kill-session that ends the restart
RestartKillFatalAlways(err) == ~err.nil

RestartKillFatalNever(err) == FALSE

RestartKillFatal(err) == ~err.nil /\ ~isTmuxNotFoundError(err)

RestartKill ==
    /\ pc = "k_kill"
    /\ \E r \in TmuxKillSession(env) :
         /\ env' = r.env
         /\ IF RestartKillFatal(r.err)
            THEN Return("", Wrap({"restartClaudeSession: kill session"}, r.err))
            ELSE Call("c_new", "k_created")
         /\ gh' = [gh EXCEPT !.kills = @ + 1, !.killErr = r.err]
    /\ UNCHANGED <<now, loc, hist, budget>>

\* lines 1559-1562: the readiness gate returns straight to restart's caller
RestartCreated ==
    /\ pc = "k_created"
    /\ now' = 0
    /\ IF ret.err.nil THEN Goto("r_enter") ELSE Return("", ret.err)
    /\ UNCHANGED <<loc, hist, env, budget, gh>>

-----------------------------------------------------------------------------
(* requireSessionAliveFor, lines 1407-1420                                 *)

\* lines 1408-1409
AliveEnter ==
    /\ pc = "a_enter"
    /\ loc' = [loc EXCEPT !.aDeadline = now + StartupSettleWindow]
    /\ IF now < loc'.aDeadline THEN Goto("a_has") ELSE Return("", Nil)
    /\ UNCHANGED <<now, hist, env, budget, gh>>

\* lines 1410-1419: one has-session poll, the sleep after it and the loop test
AliveHas ==
    /\ pc = "a_has"
    /\ \E r \in tmuxHasSession(env) :
         /\ env' = r.env
         /\ IF ~r.err.nil
            THEN Return("", r.err) /\ UNCHANGED now
            ELSE IF ~r.ok
            THEN Return("", Err({"exited shortly after startup"})) /\ UNCHANGED now
            ELSE /\ now' = now + AliveSleep
                 /\ IF now' < loc.aDeadline THEN Goto("a_has") ELSE Return("", Nil)
    /\ UNCHANGED <<loc, hist, budget, gh>>

-----------------------------------------------------------------------------
(* WaitForRuntimeReady, lines 1364-1404                                    *)

ReadyEnter ==
    /\ pc = "r_enter"
    /\ now' = 0
    /\ loc' = [loc EXCEPT !.rDeadline = now' + runtimeReadyTTL, !.rLastErr = Nil,
                          !.aDeadline = 0]
    /\ Goto("r_loop")
    /\ gh' = [gh EXCEPT !.gates = @ + 1]
    /\ UNCHANGED <<hist, env, budget>>

\* lines 1400-1403: the error of a gate that ran out of time
ReadyTimeoutErrorBare(lastErr) == Err({"not ready within"})

ReadyTimeoutError(lastErr) ==
    IF ~lastErr.nil
    THEN Wrap({"not ready within"}, lastErr)
    ELSE Err({"not ready within"})

\* line 1368 and, past the deadline, lines 1400-1403
ReadyLoop ==
    /\ pc = "r_loop"
    /\ IF now < loc.rDeadline
       THEN Goto("r_has")
       ELSE Return("", ReadyTimeoutError(loc.rLastErr))
    /\ UNCHANGED <<now, loc, hist, env, budget, gh>>

\* lines 1369-1375
ReadyHas ==
    /\ pc = "r_has"
    /\ \E r \in tmuxHasSession(env) :
         /\ env' = r.env
         /\ IF ~r.err.nil
            THEN Return("", r.err)
            ELSE IF ~r.ok
            THEN Return("", Err({"exited during startup"}))
            ELSE Goto("r_state")
    /\ UNCHANGED <<now, loc, hist, budget, gh>>

\* lines 1377-1381
ReadyState ==
    /\ pc = "r_state"
    /\ \E r \in tmuxPaneState(env) :
         /\ env' = r.env
         /\ IF ~r.err.nil
            THEN Return("", r.err) /\ UNCHANGED gh
            ELSE /\ gh' = [gh EXCEPT !.lastDead = r.dead]
                 /\ IF r.dead THEN Goto("r_deadcapture") ELSE Goto("r_capture")
    /\ UNCHANGED <<now, loc, hist, budget>>

\* line 1383, "pane output:\n%s": the part of a message that quotes a pane
PaneOutput(text) == "pane output: " \o text

\* lines 1382-1383: the pane is dead; its text goes into the message (the
\* empty text if the capture failed)
ReadyDeadCapture ==
    /\ pc = "r_deadcapture"
    /\ \E r \in CapturePane(env) :
         /\ env' = r.env
         /\ Return("", Err({"process exited", PaneOutput(r.text)}))
         /\ gh' = [gh EXCEPT !.seen = IF r.err.nil THEN r.text ELSE @]
    /\ UNCHANGED <<now, loc, hist, budget>>

\* lines 1386-1397: the text of a capture that worked is dropped
ReadyCapture ==
    /\ pc = "r_capture"
    /\ \E r \in CapturePane(env) :
         /\ env' = r.env
         /\ IF r.err.nil
            THEN /\ Call("a_enter", "r_alive")
                 /\ gh' = [gh EXCEPT !.seen = r.text]
                 /\ UNCHANGED <<now, loc>>
            ELSE /\ loc' = [loc EXCEPT !.rLastErr = r.err]
                 /\ now' = now + ReadyRetrySleep
                 /\ Goto("r_loop")
                 /\ UNCHANGED gh
    /\ UNCHANGED <<hist, budget>>

\* What the gate's caller can see of the pane when the gate reports ready.
PaneNow == IF ~env.sess THEN "gone" ELSE IF env.dead THEN "dead" ELSE "live"

\* lines 1388-1393
ReadyAlive ==
    /\ pc = "r_alive"
    /\ IF ret.err.nil
       THEN /\ Return("", Nil)
            /\ gh' = [gh EXCEPT !.ready = PaneNow]
            /\ UNCHANGED <<now, loc>>
       ELSE /\ loc' = [loc EXCEPT !.rLastErr = ret.err]
            /\ now' = now + ReadyRetrySleep
            /\ Goto("r_loop")
            /\ UNCHANGED gh
    /\ UNCHANGED <<hist, env, budget>>

-----------------------------------------------------------------------------
(* EnsureClaudeSession, lines 1208-1233                                    *)

\* lines 1209-1217
EnsureHas ==
    /\ pc = "e_has"
    /\ \E r \in tmuxHasSession(env) :
         /\ env' = r.env
         /\ IF ~r.err.nil
            THEN Return("", r.err)
            ELSE IF ~r.ok
            THEN Call("c_new", "e_created")
            ELSE Goto("e_state")
    /\ UNCHANGED <<now, loc, hist, budget, gh>>

\* lines 1214-1216
EnsureCreated ==
    /\ pc = "e_created"
    /\ now' = 0
    /\ IF ret.err.nil THEN Call("r_enter", "e_ready") ELSE Return("", ret.err)
    /\ UNCHANGED <<loc, hist, env, budget, gh>>

\* line 1222: what EnsureClaudeSession does about the pane state it read
EnsureRestartsAlways(dead) == TRUE

EnsureRestartsNever(dead) == FALSE

EnsureRestarts(dead) == dead

\* lines 1218-1226
EnsureState ==
    /\ pc = "e_state"
    /\ \E r \in tmuxPaneState(env) :
         /\ env' = r.env
         /\ IF ~r.err.nil
            THEN Return("", r.err) /\ UNCHANGED gh
            ELSE /\ gh' = [gh EXCEPT !.lastDead = r.dead, !.entryDead = r.dead]
                 /\ IF EnsureRestarts(r.dead)
                    THEN Call("k_kill", "e_restarted")
                    ELSE Call("r_enter", "e_ready")
    /\ UNCHANGED <<now, loc, hist, budget>>

\* lines 1223-1225
EnsureRestarted ==
    /\ pc = "e_restarted"
    /\ now' = 0
    /\ IF ret.err.nil
       THEN Call("r_enter", "e_ready")
       ELSE Return("", Wrap({"EnsureClaudeSession: recover dead pane"}, ret.err))
    /\ loc' = Forget(loc)
    /\ UNCHANGED <<hist, env, budget, gh>>

\* lines 1229-1232
EnsureReady ==
    /\ pc = "e_ready"
    /\ now' = 0
    /\ Return("", ret.err)
    /\ loc' = Forget(loc)
    /\ UNCHANGED <<hist, env, budget, gh>>

-----------------------------------------------------------------------------
(* SendAndCaptureWithRecovery, lines 1254-1302                             *)

\* lines 1260, 1272, 1285: a failed step that is answered by a restart
SendRetryableAnyAttempt(err, attempt) == ShouldRecoverSession(err)

SendRetryableAnyError(err, attempt) == attempt = 1

SendRetryableWithDead(err, attempt) ==
    (ShouldRecoverSession(err) \/ Contains(err, "process is dead")) /\ attempt = 1

SendRetryable(err, attempt) == ShouldRecoverSession(err) /\ attempt = 1

\* line 1257 and, if the loop ends, lines 1298-1301
SendLoop ==
    /\ pc = "s_loop"
    /\ now' = 0
    /\ IF loc.attempt <= MaxSendRetries
       THEN /\ Call("e_has", "s_ensured")
            /\ gh' = [gh EXCEPT !.attempts = @ + 1, !.entryDead = FALSE]
       ELSE /\ Return("", IF loc.lastErr.nil
                          THEN Err({"unknown retry failure"})
                          ELSE loc.lastErr)
            /\ UNCHANGED gh
    /\ UNCHANGED <<loc, hist, env, budget>>

\* lines 1259-1267, 1271-1279, 1284-1292: a step of an attempt failed with err
SendFailed(step, val, err) ==
    LET lastErr == Wrap({"SendAndCaptureWithRecovery"}, err)
        retry   == SendRetryable(err, loc.attempt)
    IN  /\ loc' = [Forget(loc) EXCEPT !.lastErr = lastErr]
        /\ gh' = [gh EXCEPT
                    !.fails = Append(@, [attempt |-> loc.attempt, step |-> step,
                                         err |-> err, typed |-> gh.typed,
                                         kills |-> gh.kills, creates |-> gh.creates]),
                    !.recov = IF retry THEN @ + 1 ELSE @]
        /\ IF retry
           THEN Call("k_kill", "s_restarted")
           ELSE Return(val, lastErr)

\* lines 1261-1265, 1273-1277, 1286-1290: after the restart, the next attempt
SendRestarted ==
    /\ pc = "s_restarted"
    /\ now' = 0
    /\ loc' = [Forget(loc) EXCEPT !.lastErr = IF ret.err.nil THEN @ ELSE Wrap(@.ph, ret.err),
                          !.attempt = @ + 1]
    /\ Goto("s_loop")
    /\ UNCHANGED <<hist, env, budget, gh>>

\* lines 1258-1268
SendEnsured ==
    /\ pc = "s_ensured"
    /\ now' = 0
    /\ IF ret.err.nil
       THEN Goto("s_literal") /\ UNCHANGED <<loc, gh>>
       ELSE SendFailed("ensure", "", ret.err)
    /\ UNCHANGED <<hist, env, budget>>

\* SendMessage, lines 1306-1309: the text, then the pause
SendLiteral ==
    /\ pc = "s_literal"
    /\ \E r \in TmuxSendKeys(env) :
         /\ env' = r.env
         /\ IF r.err.nil
            THEN /\ Goto("s_enter")
                 /\ now' = now + KeystrokeSleep
                 /\ gh' = [gh EXCEPT !.typed = @ + 1]
                 /\ UNCHANGED loc
            ELSE /\ SendFailed("send", "", Wrap({"SendMessage"}, r.err))
                 /\ UNCHANGED now
    /\ UNCHANGED <<hist, budget>>

\* SendMessage, lines 1310-1313: Enter; then the wait of line 1282 begins
SendEnter ==
    /\ pc = "s_enter"
    /\ \E r \in TmuxSendKeys(env) :
         /\ env' = r.env
         /\ IF r.err.nil
            THEN /\ loc' = [loc EXCEPT !.previous = loc.lastPane,
                                       !.timeout = SendWaitTimeout]
                 /\ Call("w_enter", "s_waited")
                 /\ UNCHANGED gh
            ELSE SendFailed("send", "", Wrap({"SendMessage"}, r.err))
    /\ UNCHANGED <<now, hist, budget>>

\* lines 1282-1295
SendWaited ==
    /\ pc = "s_waited"
    /\ now' = 0
    /\ IF ret.err.nil
       THEN Return(ret.val, Nil) /\ loc' = Forget(loc) /\ UNCHANGED gh
       ELSE SendFailed("wait", ret.val, ret.err)
    /\ hist' = NoHist
    /\ UNCHANGED <<env, budget>>

\* WaitForPaneUpdate, lines 1317-1327: the poller on the session's pane
PaneCapture ==
    /\ \E r \in CapturePane(env) :
         /\ WaitPoll(r.text, r.err, 0)
         /\ env' = r.env
    /\ UNCHANGED <<budget, gh>>

PaneSleep ==
    /\ WaitSleep(0)
    /\ UNCHANGED <<env, budget, gh>>

\* lines 1320-1326: checkAlive is called only if the text is the baseline
PaneDeadline ==
    /\ pc = "w_deadline"
    /\ IF loc.last = loc.previous
       THEN \E r \in tmuxPaneState(env) :
              /\ WaitDeadline(~r.dead /\ r.err.nil, r.err)
              /\ env' = r.env
       ELSE /\ WaitDeadline(TRUE, Nil)
            /\ UNCHANGED env
    /\ UNCHANGED <<budget, gh>>

-----------------------------------------------------------------------------
(* The callers: chatLoop and the tests call EnsureClaudeSession and        *)
(* SendAndCaptureWithRecovery one after the other.                         *)

\* The observer at the start of a call; prev is what the call before left.
NewCall(kind) ==
    [calls |-> gh.calls + 1, kind |-> kind, ev |-> 0,
     attempts |-> 0, typed |-> 0, recov |-> 0, kills |-> 0, creates |-> 0,
     gates |-> 0, entryDead |-> FALSE, lastDead |-> FALSE, fails |-> <<>>,
     ready |-> "none", seen |-> "", killErr |-> Nil,
     prev |-> [kind |-> gh.kind, ok |-> ret.err.nil, gen |-> env.gen,
               pane |-> PaneNow, fault |-> env.fault]]

CallEnsure ==
    /\ pc = "idle"
    /\ gh.calls < MaxCalls
    /\ Call("e_has", "idle")
    /\ gh' = NewCall("ensure")
    /\ loc' = NoLocals
    /\ now' = 0
    /\ hist' = NoHist
    /\ UNCHANGED <<env, budget>>

CallSend ==
    /\ pc = "idle"
    /\ gh.calls < MaxCalls
    /\ \E lastPane \in LastPanes :
         loc' = [NoLocals EXCEPT !.attempt = 1, !.lastPane = lastPane]
    /\ Call("s_loop", "idle")
    /\ gh' = NewCall("send")
    /\ now' = 0
    /\ hist' = NoHist
    /\ UNCHANGED <<env, budget>>

-----------------------------------------------------------------------------
(* The environment.  The program sees it only through tmux commands, so    *)
(* it is enough to let it act right before one.                            *)

CommandPcs ==
    {"c_new", "c_exitempty", "c_remain", "k_kill", "a_has", "r_has", "r_state",
     "r_deadcapture", "r_capture", "e_has", "e_state", "s_literal", "s_enter",
     "w_capture", "w_deadline"}

EnvActs(after) ==
    /\ budget > 0
    /\ pc \in CommandPcs
    /\ env' = after
    /\ budget' = budget - 1
    /\ gh' = [gh EXCEPT !.ev = @ + 1]
    /\ UNCHANGED <<pc, stack, now, ret, loc, hist>>

\* the pane's process exits; without remain-on-exit its window closes
ProcessExits ==
    /\ env.sess /\ ~env.dead
    /\ \E st \in ExitStatuses :
         EnvActs(IF env.remain
                 THEN [env EXCEPT !.dead = TRUE, !.status = st]
                 ELSE NoSession(env))

\* the pane's process prints
PaneChanges ==
    /\ env.sess /\ ~env.dead
    /\ \E t \in PaneTexts \ {env.text} : EnvActs([env EXCEPT !.text = t])

SessionKilled ==
    /\ env.sess
    /\ EnvActs(NoSession(env))

ServerKilled ==
    /\ env.server
    /\ EnvActs(NoServer(env))

CommandFault ==
    /\ ~env.fault
    /\ EnvActs([env EXCEPT !.fault = TRUE])

InitEnvs ==
    {NoServer([gen |-> 0, fault |-> FALSE])}
    \cup {[server |-> TRUE, sess |-> FALSE, dead |-> FALSE, status |-> 0,
           text |-> "p0", remain |-> FALSE, exitEmpty |-> FALSE, gen |-> 0,
           fault |-> FALSE]}
    \cup {[server |-> TRUE, sess |-> TRUE, dead |-> FALSE, status |-> 0,
           text |-> t, remain |-> TRUE, exitEmpty |-> FALSE, gen |-> 1,
           fault |-> FALSE] : t \in PaneTexts}
    \cup {[server |-> TRUE, sess |-> TRUE, dead |-> TRUE, status |-> st,
           text |-> "p0", remain |-> TRUE, exitEmpty |-> FALSE, gen |-> 1,
           fault |-> FALSE] : st \in ExitStatuses}

NoCall ==
    [calls |-> 0, kind |-> "none", ev |-> 0,
     attempts |-> 0, typed |-> 0, recov |-> 0, kills |-> 0, creates |-> 0,
     gates |-> 0, entryDead |-> FALSE, lastDead |-> FALSE, fails |-> <<>>,
     ready |-> "none", seen |-> "", killErr |-> Nil,
     prev |-> [kind |-> "none", ok |-> FALSE, gen |-> 0, pane |-> "gone",
               fault |-> FALSE]]

Init ==
    /\ pc = "idle"
    /\ stack = <<>>
    /\ now = 0
    /\ ret = [val |-> "", err |-> Nil]
    /\ loc = NoLocals
    /\ hist = NoHist
    /\ env \in InitEnvs
    /\ budget = MaxEnvEvents
    /\ gh = NoCall

Next ==
    \/ CallEnsure
    \/ CallSend
    \/ EnsureHas
    \/ EnsureCreated
    \/ EnsureState
    \/ EnsureRestarted
    \/ EnsureReady
    \/ CreateNewSession
    \/ CreateSetServerOptions
    \/ CreateConfigureSession
    \/ RestartKill
    \/ RestartCreated
    \/ ReadyEnter
    \/ ReadyLoop
    \/ ReadyHas
    \/ ReadyState
    \/ ReadyDeadCapture
    \/ ReadyCapture
    \/ ReadyAlive
    \/ AliveEnter
    \/ AliveHas
    \/ SendLoop
    \/ SendEnsured
    \/ SendLiteral
    \/ SendEnter
    \/ SendWaited
    \/ SendRestarted
    \/ WaitEnter
    \/ WaitLoop
    \/ PaneCapture
    \/ PaneSleep
    \/ PaneDeadline
    \/ ProcessExits
    \/ PaneChanges
    \/ SessionKilled
    \/ ServerKilled
    \/ CommandFault

Spec == Init /\ [][Next]_vars

-----------------------------------------------------------------------------
(* WaitForRuntimeReady on its own, called on an existing session, against  *)
(* an environment that acts often enough to keep the gate from reporting   *)
(* ready until its deadline.                                               *)

\* how many times the environment acts while the gate runs
GateEnvEvents == 7

InitGate ==
    /\ pc = "r_enter"
    /\ stack = <<"done">>
    /\ now = 0
    /\ ret = [val |-> "", err |-> Nil]
    /\ loc = NoLocals
    /\ hist = NoHist
    /\ env \in {e \in InitEnvs : e.sess}
    /\ budget = GateEnvEvents
    /\ gh = NoCall

NextGate ==
    \/ ReadyEnter
    \/ ReadyLoop
    \/ ReadyHas
    \/ ReadyState
    \/ ReadyDeadCapture
    \/ ReadyCapture
    \/ ReadyAlive
    \/ AliveEnter
    \/ AliveHas
    \/ ProcessExits
    \/ PaneChanges
    \/ SessionKilled
    \/ ServerKilled
    \/ CommandFault

SpecGate == InitGate /\ [][NextGate]_vars

-----------------------------------------------------------------------------
(* runWithCleanup with TERMINATE_WHEN_QUIT on, lines 149-168: the main     *)
(* goroutine runs the loop (calls of SendAndCaptureWithRecovery, pc =      *)
(* "idle" between two of them) and then the cleanup, while the goroutine   *)
(* of line 156 waits for SIGINT or SIGTERM, runs the cleanup and exits the *)
(* process.  Here budget is the position of that goroutine, and nothing    *)
(* but the program acts on the tmux server.                                *)

\* lines 1594-1596: kill-session, whatever it answers
CleanupSession(e) == {r.env : r \in TmuxKillSession(e)}

Exited == pc = "exited"

\* the loop returns, line 162
FnReturns ==
    /\ pc = "idle"
    /\ pc' = "q_cleanup"
    /\ UNCHANGED <<stack, now, ret, loc, hist, env, budget, gh>>

\* line 163, and main returns
MainCleanup ==
    /\ pc = "q_cleanup"
    /\ env' \in CleanupSession(env)
    /\ pc' = "exited"
    /\ UNCHANGED <<stack, now, ret, loc, hist, budget, gh>>

\* line 157: the signal is delivered to the waiting goroutine
SignalArrives ==
    /\ ~Exited
    /\ budget = "sig_wait"
    /\ budget' = "sig_cleanup"
    /\ UNCHANGED <<pc, stack, now, ret, loc, hist, env, gh>>

\* lines 158-159
SignalCleanup ==
    /\ ~Exited
    /\ budget = "sig_cleanup"
    /\ env' \in CleanupSession(env)
    /\ budget' = "sig_exit"
    /\ UNCHANGED <<pc, stack, now, ret, loc, hist, gh>>

\* line 160: os.Exit(0) ends the main goroutine wherever it is
SignalExit ==
    /\ ~Exited
    /\ budget = "sig_exit"
    /\ pc' = "exited"
    /\ budget' = "sig_done"
    /\ UNCHANGED <<stack, now, ret, loc, hist, env, gh>>

\* main has run EnsureClaudeSession (line 98); the pane's process may have
\* exited since
InitQuit ==
    /\ pc = "idle"
    /\ stack = <<>>
    /\ now = 0
    /\ ret = [val |-> "", err |-> Nil]
    /\ loc = NoLocals
    /\ hist = NoHist
    /\ env \in {e \in InitEnvs : e.sess}
    /\ budget = "sig_wait"
    /\ gh = NoCall

NextQuit ==
    \/ CallSend
    \/ FnReturns
    \/ MainCleanup
    \/ SignalArrives
    \/ SignalCleanup
    \/ SignalExit
    \/ EnsureHas
    \/ EnsureCreated
    \/ EnsureState
    \/ EnsureRestarted
    \/ EnsureReady
    \/ CreateNewSession
    \/ CreateSetServerOptions
    \/ CreateConfigureSession
    \/ RestartKill
    \/ RestartCreated
    \/ ReadyEnter
    \/ ReadyLoop
    \/ ReadyHas
    \/ ReadyState
    \/ ReadyCapture
    \/ ReadyAlive
    \/ AliveEnter
    \/ AliveHas
    \/ SendLoop
    \/ SendEnsured
    \/ SendLiteral
    \/ SendEnter
    \/ SendWaited
    \/ SendRestarted
    \/ WaitEnter
    \/ WaitLoop
    \/ PaneCapture
    \/ PaneSleep
    \/ PaneDeadline

SpecQuit == InitQuit /\ [][NextQuit]_vars

-----------------------------------------------------------------------------
(* Properties of the poller.  hist is kept by the observer from what the   *)
(* captures returned and when: n captures so far, the last one returned    *)
(* text at time at, and runStart is when the first capture of the unbroken *)
(* run of equal captures that ends with the last one returned.             *)

WaitDone == pc = "done"

WaitSucceeded == WaitDone /\ ret.err.nil

\* C1: a successful wait returns a text T that differs from previous and that
\* every capture returned from the poll that first saw T until a poll at
\* least StableWindow later; and a wait whose every capture differs from the
\* capture before it ends with an error, at or after the deadline.
C1_SuccessOnlyAfterStableWindow ==
    /\ WaitSucceeded =>
          /\ ret.val # loc.previous
          /\ hist.n > 0
          /\ hist.text = ret.val
          /\ hist.at - hist.runStart >= StableWindow
    /\ (WaitDone /\ hist.allDiffer /\ ~hist.failed) =>
          (~ret.err.nil /\ now >= loc.deadline)

\* C1's case: T was first seen after an earlier, different capture and then
\* held for the window.
C1_Witness ==
    /\ WaitSucceeded
    /\ hist.runStart > CaptureDelay
    /\ hist.at - hist.runStart >= StableWindow

\* C1's second case: four captures, each unlike the one before, then the deadline.
C1_WitnessChanging ==
    WaitDone /\ hist.allDiffer /\ hist.n >= 4 /\ ~ret.err.nil

NeverChanged == WaitDone /\ ~hist.failed /\ ~hist.changed

\* C6: when every capture equals previous until the deadline and checkAlive
\* reports the process not alive, the wait fails with 'process is dead', not
\* with 'still working' or the generic timeout, and returns previous.
C6_UnchangedAndDeadIsDeadProcess ==
    (NeverChanged /\ hist.alive = "dead") =>
        /\ Contains(ret.err, "process is dead")
        /\ ~Contains(ret.err, "still working")
        /\ ~Contains(ret.err, "did not stabilize")
        /\ ret.val = loc.previous

C6_Witness ==
    NeverChanged /\ hist.alive = "dead" /\ hist.n >= 3

\* C7: when every capture equals previous until the deadline and checkAlive
\* reports the process alive, the wait fails with 'still working', not with
\* 'process is dead' or the generic timeout, and returns previous.
C7_UnchangedAndAliveIsStillWorking ==
    (NeverChanged /\ hist.alive = "alive") =>
        /\ Contains(ret.err, "still working")
        /\ ~Contains(ret.err, "process is dead")
        /\ ~Contains(ret.err, "did not stabilize")
        /\ ret.val = loc.previous

C7_Witness ==
    NeverChanged /\ hist.alive = "alive" /\ hist.n >= 3

\* C8: a wait in which some capture differed from previous and which ends
\* without success (and without a capture error) fails with the generic
\* timeout, 'content changed but did not stabilize'.
C8_ChangedThenTimeoutIsGeneric ==
    (WaitDone /\ ~hist.failed /\ hist.changed /\ ~ret.err.nil) =>
        Contains(ret.err, "did not stabilize")

-----------------------------------------------------------------------------
(* Properties of the session manager.  gh is kept by the observer for the  *)
(* top-level call in progress: the tmux commands it issued (kills,         *)
(* creates), the readiness gates it ran, the attempts, typings and         *)
(* recovery restarts of a send, each failed step of a send (fails), and    *)
(* how often the environment acted since the call began (ev).              *)

SendReturned == pc = "idle" /\ gh.kind = "send"

EnsureReturned == pc = "idle" /\ gh.kind = "ensure"

\* the failed steps of the send that the program answers by returning
FinalFailure(f) == ~ShouldRecoverSession(f.err) \/ f.attempt >= 2

FirstFailureRecoverable ==
    /\ Len(gh.fails) >= 1
    /\ gh.fails[1].attempt = 1
    /\ ShouldRecoverSession(gh.fails[1].err)

\* C2: a send makes at most MaxSendRetries = 2 attempts, types the message
\* at most twice and restarts for recovery at most once; when a step of
\* attempt 1 fails with an error ShouldRecoverSession accepts, it restarts,
\* runs exactly one more attempt, and returns that attempt's result.
C2_OneRetryAfterRecoverableFailure ==
    /\ gh.attempts <= MaxSendRetries
    /\ gh.typed <= 2
    /\ gh.recov <= 1
    /\ (SendReturned /\ FirstFailureRecoverable) =>
          /\ gh.recov = 1
          /\ gh.attempts = 2
          /\ \/ Len(gh.fails) = 1 /\ ret.err.nil
             \/ /\ Len(gh.fails) = 2
                /\ gh.fails[2].attempt = 2
                /\ ret.err = Wrap({"SendAndCaptureWithRecovery"}, gh.fails[2].err)

\* C2's case: the wait of attempt 1 failed recoverably after the message was
\* typed; the send restarted, typed it again and succeeded.
C2_Witness ==
    /\ SendReturned
    /\ FirstFailureRecoverable
    /\ gh.recov = 1
    /\ gh.typed = 2
    /\ ret.err.nil

\* C3: a second EnsureClaudeSession right after a successful first one, on a
\* session with a live pane that the environment leaves alone, issues no
\* kill-session and no new-session, succeeds and leaves the same session.
C3_EnsureTwiceLeavesSession ==
    (/\ EnsureReturned
     /\ gh.calls >= 2
     /\ gh.prev.kind = "ensure" /\ gh.prev.ok /\ gh.prev.pane = "live"
     /\ gh.ev = 0) =>
        /\ ret.err.nil
        /\ gh.kills = 0
        /\ gh.creates = 0
        /\ env.gen = gh.prev.gen
        /\ PaneNow = "live"

C3_Witness ==
    /\ EnsureReturned
    /\ gh.calls >= 2
    /\ gh.prev.kind = "ensure" /\ gh.prev.ok /\ gh.prev.pane = "live"
    /\ gh.ev = 0
    /\ ret.err.nil

\* C4: an EnsureClaudeSession that finds the session with a dead pane issues
\* kill-session, then (unless the kill failed) new-session and the readiness
\* gate; it returns success only if the pane state it read last was alive.
C4_DeadPaneIsRestarted ==
    (EnsureReturned /\ gh.entryDead) =>
        /\ gh.kills >= 1
        /\ gh.creates >= 1 \/ Contains(ret.err, "restartClaudeSession: kill session")
        /\ ret.err.nil => (gh.creates >= 1 /\ gh.gates >= 1 /\ ~gh.lastDead)

C4_Witness ==
    EnsureReturned /\ gh.entryDead /\ ret.err.nil /\ gh.kills = 1 /\ gh.creates = 1

\* C5: when WaitForRuntimeReady reports the session ready, the pane's process
\* has not exited meanwhile (ready is what the pane was when the gate
\* returned success).
C5_ReadyOnlyIfProcessAlive == gh.ready # "dead"

\* C9: a step that fails with an error ShouldRecoverSession rejects, or that
\* fails on attempt 2, ends the send at once with that error: no restart and
\* no typing follows it.
C9_FinalFailureReturnsAtOnce ==
    \A i \in 1..Len(gh.fails) :
        FinalFailure(gh.fails[i]) =>
            /\ SendReturned
            /\ i = Len(gh.fails)
            /\ ret.err = Wrap({"SendAndCaptureWithRecovery"}, gh.fails[i].err)
            /\ gh.recov = i - 1
            /\ gh.typed = gh.fails[i].typed
            /\ gh.kills = gh.fails[i].kills
            /\ gh.creates = gh.fails[i].creates

\* C9's case: attempt 2 failed with an error that attempt 1 would have retried.
C9_Witness ==
    /\ SendReturned
    /\ Len(gh.fails) = 2
    /\ gh.fails[2].attempt = 2
    /\ ShouldRecoverSession(gh.fails[2].err)

DeadProcessOnFirstWait ==
    /\ gh.kind = "send"
    /\ Len(gh.fails) >= 1
    /\ gh.fails[1].attempt = 1
    /\ gh.fails[1].step = "wait"
    /\ Contains(gh.fails[1].err, "process is dead")

\* C10 as claimed: when the wait of attempt 1 fails with 'process is dead',
\* the send restarts the session and retries.
C10_DeadProcessIsRetried ==
    DeadProcessOnFirstWait => gh.recov >= 1

\* C10 as the program has it: when the wait of attempt 1 fails with 'process
\* is dead', the send returns that error and the baseline text at once, with
\* no restart and no second attempt.
C10_DeadProcessIsReturned ==
    DeadProcessOnFirstWait =>
        /\ SendReturned
        /\ Len(gh.fails) = 1
        /\ gh.recov = 0
        /\ gh.attempts = 1
        /\ gh.typed = 1
        /\ gh.kills = gh.fails[1].kills
        /\ Contains(ret.err, "process is dead")
        /\ ret.val = loc.lastPane

C10_Witness ==
    DeadProcessOnFirstWait /\ SendReturned /\ gh.ev >= 1

\* C11: a send that starts with the session gone (the session alone, or the
\* whole server, was killed) and that the environment leaves alone creates
\* the session once, types the message once and returns without error the
\* text the new pane settled on, and the session exists at its return.  The
\* baseline the caller passes differs from what the new pane shows, and no
\* tmux command is set to fail when the call starts.
C11_SendRecreatesKilledSession ==
    (/\ SendReturned
     /\ gh.prev.pane = "gone"
     /\ ~gh.prev.fault
     /\ gh.ev = 0
     /\ loc.lastPane # "p0") =>
        /\ ret.err.nil
        /\ ret.val = env.text
        /\ env.server /\ env.sess /\ ~env.dead
        /\ gh.creates = 1
        /\ gh.typed = 1

\* C11's two cases: the call began without a server, or with a server that
\* had lost the session.
C11_Witness ==
    /\ SendReturned
    /\ gh.prev.pane = "gone"
    /\ ~gh.prev.fault
    /\ gh.ev = 0
    /\ loc.lastPane # "p0"
    /\ ret.err.nil
    /\ gh.creates = 1

-----------------------------------------------------------------------------
(* AutonomousLoop (package orchestrator).  A text is a sequence of lines   *)
(* and a line a sequence of words, so that the line-wise and substring     *)
(* operations of the program are computed, not assumed.  The loop runs in  *)
(* the same variables:                                                     *)
(*   pc     where the loop is                                              *)
(*   loc    its locals: i, consecutiveAPIErrors, messages, lastPane,       *)
(*          memories and the reply being delivered                         *)
(*   ret    what SendAndCaptureWithRecovery or WaitForPaneUpdate returned  *)
(*   env    the package variable MaxIterations and the memory file         *)
(*   gh     the observer: the events published to the broker, the result   *)
(*          and the reply of every chat call of line 98, the history sent  *)
(*          with the last one, and counts of what the loop did             *)

TaskCompleteMarker == "TASK_COMPLETE"

MemorySavePrefix == "MEMORY_SAVE:"

\* memory.MaxFacts, settable by MEMORY_MAX_FACTS (50 unless set)
MaxFacts == 1

\* line 108: the consecutive API errors that end the run
MaxAPIErrors == 3

(* Bounds of the model.                                                    *)

\* the values of MaxIterations are 0 (unlimited) .. MaxIterationsBound
MaxIterationsBound == 2

\* how many replies the API gives in a run with MaxIterations = 0
UnlimitedRunCap == 2

\* lines 57-73 of memory.go
RECURSIVE ExtractFacts(_)
ExtractFacts(reply) ==
    IF reply = <<>> THEN <<>>
    ELSE LET line == Head(reply)
         IN  IF line # <<>> /\ Head(line) = MemorySavePrefix
             THEN (IF Tail(line) # <<>> THEN <<Tail(line)>> ELSE <<>>)
                  \o ExtractFacts(Tail(reply))
             ELSE ExtractFacts(Tail(reply))

KeptLine(line) == line = <<>> \/ Head(line) # MemorySavePrefix

ExtractMemorySaves(reply) ==
    [facts |-> ExtractFacts(reply), cleaned |-> SelectSeq(reply, KeptLine)]

\* lines 75-86 of memory.go: the first occurrence of every fact, in order
RECURSIVE DeduplicateMemory(_)
DeduplicateMemory(facts) ==
    IF facts = <<>> THEN <<>>
    ELSE LET init == DeduplicateMemory(SubSeq(facts, 1, Len(facts) - 1))
             last == facts[Len(facts)]
         IN  IF \E k \in DOMAIN init : init[k] = last
             THEN init
             ELSE Append(init, last)

\* strings.Contains(reply, TaskCompleteMarker)
ContainsMarker(reply) ==
    \E l \in DOMAIN reply : \E w \in DOMAIN reply[l] :
        reply[l][w] = TaskCompleteMarker

\* CleanPaneOutput, lines 1600-1611 of main.go: a pane is a sequence of
\* items, "ESC" an ANSI sequence and "" a blank line; the ANSI sequences go,
\* then the blank lines at both ends.  (Runs of blank lines inside the text
\* do not occur in the panes of the model.)
NotAnsi(item) == item # "ESC"

RECURSIVE TrimBlank(_)
TrimBlank(text) ==
    IF text = <<>> THEN <<>>
    ELSE IF Head(text) = "" THEN TrimBlank(Tail(text))
    ELSE IF text[Len(text)] = "" THEN TrimBlank(SubSeq(text, 1, Len(text) - 1))
    ELSE text

CleanPaneOutput(raw) == TrimBlank(SelectSeq(raw, NotAnsi))

\* Message, lines 25-28 of types.go: text is what the content is built from
Message(role, kind, text, err) ==
    [role |-> role, kind |-> kind, text |-> text, err |-> err]

\* line 55: BuildSystemPrompt(memories) is the fixed rules followed by the facts
SystemTurnAsUser(memories) == Message("user", "prompt", memories, Nil)

SystemTurn(memories) == Message("system", "prompt", memories, Nil)

\* line 56
TaskTurn == Message("user", "task", <<<<"task">>>>, Nil)

\* lines 151, 203, 237
AssistantTurn(reply) == Message("assistant", "reply", reply, Nil)

\* line 238
OutputTurn(cleaned) == Message("user", "output", <<cleaned>>, Nil)

\* lines 185, 204
ErrorTurnEmpty(err) == Message("user", "error", <<>>, Nil)

ErrorTurn(err) ==
    Message("user", "error", <<>>, Wrap({"Error sending to Claude Code"}, err))

\* dashboard.IterationEvent: the fields that tell the events of a run apart
Event(type, iteration, error) ==
    [type |-> type, iteration |-> iteration, error |-> error]

\* line 114
AbortError == Err({"aborted after 3 consecutive API errors"})

\* line 248
MaxIterationsError == Err({"reached maximum iterations"})

\* the failures of CallOpenRouter, lines 67-112 of types.go
ApiErrors == {Err({"CallOpenRouter"})}

\* The replies of the model: an instruction; the marker alone and inside a
\* sentence; a fact with an instruction, with the marker in the fact, and
\* with the marker on the next line; the prefix without a fact, followed by
\* the marker in lower case.
Replies ==
    { << <<"run">> >>,
      << <<"TASK_COMPLETE">> >>,
      << <<"all">>, <<"done", "TASK_COMPLETE", "now">> >>,
      << <<"MEMORY_SAVE:", "f1">>, <<"run">> >>,
      << <<"MEMORY_SAVE:", "done", "TASK_COMPLETE">> >>,
      << <<"MEMORY_SAVE:", "f1">>, <<"TASK_COMPLETE">> >>,
      << <<"MEMORY_SAVE:">>, <<"task_complete">> >> }

\* the fact lists a run starts with (memory.LoadMemory)
InitMemories == {<<>>, << <<"f0">>, <<"f2">> >>}

\* the texts the pane settles on
LoopPanes == {<<"ESC", "out1">>, <<"out2", "">>}

SendResultsNone(lastPane) == {}

SendResultsEmptyPane(lastPane) ==
    {[val |-> p, err |-> Nil] : p \in LoopPanes \ {lastPane}}
    \cup {[val |-> <<>>,
           err |-> Wrap({"SendAndCaptureWithRecovery"},
                        WaitTimeoutError(lastPane, lastPane, TRUE, Nil))]}

\* What SendAndCaptureWithRecovery returns to the loop (lines 1267-1301 of
\* main.go): a settled text other than the baseline; the baseline with the
\* wait's 'still working' or 'process is dead'; nothing with another error.
SendResults(lastPane) ==
    {[val |-> p, err |-> Nil] : p \in LoopPanes \ {lastPane}}
    \cup {[val |-> lastPane,
           err |-> Wrap({"SendAndCaptureWithRecovery"},
                        WaitTimeoutError(lastPane, lastPane, alive, Nil))] :
            alive \in BOOLEAN}
    \cup {[val |-> <<>>, err |-> Wrap({"SendAndCaptureWithRecovery"}, OtherError)]}

\* What WaitForPaneUpdate returns to the loop (lines 1317-1361 of main.go):
\* a settled text other than the baseline, or the baseline with 'still
\* working' or 'process is dead'
PollResults(lastPane) ==
    {[val |-> p, err |-> Nil] : p \in LoopPanes \ {lastPane}}
    \cup {[val |-> lastPane,
           err |-> WaitTimeoutError(lastPane, lastPane, alive, Nil)] :
            alive \in BOOLEAN}

\* lines 44-52: the deferred save, which runs at every return
SavedFiles(mem) ==
    IF Len(mem) > 0
    THEN {[env EXCEPT !.file = [written |-> TRUE, facts |-> mem]], env}
    ELSE {env}

\* lines 45-46: whether the deferred function calls memory.SaveMemory, and
\* with which facts
SaveCallAlways(mem) == [called |-> TRUE, facts |-> mem]

SaveCall(mem) == [called |-> Len(mem) > 0, facts |-> mem]

\* the return statements of lines 116, 171 and 249, with the deferred save
LoopReturnGoesOn(observed, mem) ==
    /\ pc' = "l_test"
    /\ gh' = [observed EXCEPT !.saved = SaveCall(mem)]
    /\ env' \in SavedFiles(mem)

LoopReturn(observed, mem) ==
    /\ pc' = "l_done"
    /\ gh' = [observed EXCEPT !.saved = SaveCall(mem)]
    /\ env' \in SavedFiles(mem)

LoopGoto(target, observed) ==
    /\ pc' = target
    /\ gh' = observed
    /\ UNCHANGED env

\* lines 35-60
LoopStart ==
    /\ pc = "l_start"
    /\ loc' = [loc EXCEPT !.i = 1, !.consecutiveAPIErrors = 0, !.lastPane = <<>>,
                          !.messages = <<SystemTurn(loc.memories), TaskTurn>>]
    /\ LoopGoto("l_test",
                [gh EXCEPT !.events = Append(@, Event("task_info", 0, Nil))])
    /\ UNCHANGED <<stack, now, ret, hist, budget>>

\* line 62
LoopContinuesOneMore(i, max) == max = 0 \/ i <= max + 1

LoopContinues(i, max) == max = 0 \/ i <= max

\* lines 62-79 and, when the loop ends, lines 243-249
LoopTest ==
    /\ pc = "l_test"
    /\ IF LoopContinues(loc.i, env.MaxIterations)
       THEN LoopGoto(IF Len(loc.memories) > MaxFacts THEN "l_compact" ELSE "l_api",
                     [gh EXCEPT !.events =
                          Append(@, Event("iteration_start", loc.i, Nil))])
       ELSE LoopReturn([gh EXCEPT !.outcome = "cap",
                                  !.events = Append(@, Event("complete",
                                      env.MaxIterations, MaxIterationsError))],
                       loc.memories)
    /\ UNCHANGED <<stack, now, ret, loc, hist, budget>>

\* memory.CompactMemory, lines 89-124 of memory.go: the chat call fails or
\* its reply is no list of facts (the facts come back with an error); the
\* reply is the empty list (the facts come back without one); the reply is
\* a shorter list
CompactMemory(facts) ==
    {[facts |-> facts, err |-> Err({"CompactMemory"})],
     [facts |-> facts, err |-> Nil],
     [facts |-> <<Head(facts)>>, err |-> Nil]}

\* lines 88-94: the loop's state after CompactMemory returned r
AfterCompactionAlways(l, r) ==
    [l EXCEPT !.memories = r.facts, !.messages[1] = SystemTurn(r.facts)]

AfterCompaction(l, r) ==
    IF r.err.nil
    THEN [l EXCEPT !.memories = r.facts, !.messages[1] = SystemTurn(r.facts)]
    ELSE l

\* lines 79-95
LoopCompact ==
    /\ pc = "l_compact"
    /\ \E r \in CompactMemory(loc.memories) :
         /\ loc' = AfterCompaction(loc, r)
         /\ LoopGoto("l_api",
                     [gh EXCEPT !.compactCalls = @ + 1,
                                !.compactErr = r.err,
                                !.compactedAfter =
                                    IF r.err.nil /\ r.facts # loc.memories
                                    THEN Len(gh.replies) ELSE @])
    /\ UNCHANGED <<stack, now, ret, hist, budget>>

\* line 108
ApiAbortsLate(errors) == errors > MaxAPIErrors

ApiAborts(errors) == errors >= MaxAPIErrors

\* lines 120-123 and the i++ of line 62: the iteration after a failed call
IterationAfterFailure(i, max) == (IF max > 0 THEN i - 1 ELSE i) + 1

\* lines 98-124: CallOpenRouter fails
LoopApiFails ==
    /\ pc = "l_api"
    /\ \E err \in ApiErrors :
         LET errors   == loc.consecutiveAPIErrors + 1
             called   == [gh EXCEPT !.results = Append(@, "fail"),
                                    !.sent = loc.messages]
             apiError == Event("error", loc.i, Wrap({"API error"}, err))
         IN  IF ApiAborts(errors)
             THEN /\ loc' = [loc EXCEPT !.consecutiveAPIErrors = errors]
                  /\ LoopReturn([called EXCEPT
                                   !.outcome = "abort",
                                   !.events = @ \o <<apiError,
                                       Event("complete", loc.i, AbortError)>>],
                                loc.memories)
             ELSE /\ loc' = [loc EXCEPT
                               !.consecutiveAPIErrors = errors,
                               !.i = IterationAfterFailure(@, env.MaxIterations)]
                  /\ LoopGoto("l_test",
                              [called EXCEPT !.sleeps = @ + 1,
                                             !.events = Append(@, apiError)])
    /\ UNCHANGED <<stack, now, ret, hist, budget>>

\* line 125
ErrorsAfterSuccessKept(errors) == errors

ErrorsAfterSuccess(errors) == 0

\* line 147, on the reply as lines 138-144 left it
ReplyEndsTaskAnyCase(reply) ==
    \E l \in DOMAIN reply : \E w \in DOMAIN reply[l] :
        reply[l][w] \in {"TASK_COMPLETE", "task_complete"}

ReplyEndsTask(reply) == ContainsMarker(reply)

\* lines 98, 125-172: CallOpenRouter returns a reply
LoopApiReplies ==
    /\ pc = "l_api"
    /\ env.MaxIterations = 0 => Len(gh.replies) < UnlimitedRunCap
    /\ \E answer \in Replies :
         LET saves    == ExtractMemorySaves(answer)
             memories == IF Len(saves.facts) > 0
                         THEN DeduplicateMemory(loc.memories \o saves.facts)
                         ELSE loc.memories
             reply    == IF Len(saves.facts) > 0 THEN saves.cleaned ELSE answer
             called   == [gh EXCEPT !.results = Append(@, "ok"),
                                    !.replies = Append(@, answer),
                                    !.sent = loc.messages]
         IN  IF ReplyEndsTask(reply)
             THEN /\ loc' = [loc EXCEPT !.consecutiveAPIErrors = ErrorsAfterSuccess(@),
                                        !.memories = memories,
                                        !.reply = reply,
                                        !.messages = Append(@, AssistantTurn(reply))]
                  /\ LoopReturn([called EXCEPT
                                   !.outcome = "sentinel",
                                   !.events = @ \o
                                       <<Event("iteration_end", loc.i, Nil),
                                         Event("complete", loc.i, Nil)>>],
                                memories)
             ELSE /\ loc' = [loc EXCEPT !.consecutiveAPIErrors = ErrorsAfterSuccess(@),
                                        !.memories = memories,
                                        !.reply = reply]
                  /\ LoopGoto("l_deliver", called)
    /\ UNCHANGED <<stack, now, ret, hist, budget>>

\* line 175
LoopDeliver ==
    /\ pc = "l_deliver"
    /\ \E r \in SendResults(loc.lastPane) : ret' = r
    /\ LoopGoto("l_check", [gh EXCEPT !.deliveries = @ + 1,
                                      !.delivered = loc.reply])
    /\ UNCHANGED <<stack, now, loc, hist, budget>>

\* line 181
LoopRepoll ==
    /\ pc = "l_repoll"
    /\ \E r \in PollResults(loc.lastPane) : ret' = r
    /\ LoopGoto("l_check", gh)
    /\ UNCHANGED <<stack, now, loc, hist, budget>>

\* line 178
StillWorking(err) == ~err.nil /\ Contains(err, "still working")

\* lines 178-240 and the i++ of line 62: what the loop does with the result
LoopDelivered ==
    /\ pc = "l_check"
    /\ IF StillWorking(ret.err)
       THEN /\ loc' = [loc EXCEPT !.lastPane = ret.val]
            /\ LoopGoto("l_repoll", gh)
       ELSE IF ~ret.err.nil
       THEN /\ loc' = [loc EXCEPT
                         !.messages = @ \o <<AssistantTurn(loc.reply),
                                             ErrorTurn(ret.err)>>,
                         !.i = @ + 1]
            /\ LoopGoto("l_test",
                        [gh EXCEPT !.events = Append(@,
                            Event("iteration_end", loc.i,
                                  Wrap({"tmux error"}, ret.err)))])
       ELSE /\ loc' = [loc EXCEPT
                         !.messages = @ \o <<AssistantTurn(loc.reply),
                                             OutputTurn(CleanPaneOutput(ret.val))>>,
                         !.lastPane = ret.val,
                         !.i = @ + 1]
            /\ LoopGoto("l_test",
                        [gh EXCEPT !.events = Append(@,
                            Event("iteration_end", loc.i, Nil))])
    /\ UNCHANGED <<stack, now, ret, hist, budget>>

InitLoop ==
    /\ pc = "l_start"
    /\ stack = <<>>
    /\ now = 0
    /\ ret = [val |-> <<>>, err |-> Nil]
    /\ \E memories \in InitMemories :
         loc = [i |-> 0, consecutiveAPIErrors |-> 0, messages |-> <<>>,
                lastPane |-> <<>>, memories |-> memories, reply |-> <<>>]
    /\ hist = NoHist
    /\ \E max \in 0..MaxIterationsBound :
         env = [MaxIterations |-> max,
                file |-> [written |-> FALSE, facts |-> <<>>]]
    /\ budget = 0
    /\ gh = [events |-> <<>>, results |-> <<>>, replies |-> <<>>, sent |-> <<>>,
             compactCalls |-> 0, compactErr |-> Nil, deliveries |-> 0,
             delivered |-> <<>>,
             sleeps |-> 0, outcome |-> "none", compactedAfter |-> 0,
             saved |-> [called |-> FALSE, facts |-> <<>>]]

NextLoop ==
    \/ LoopStart
    \/ LoopTest
    \/ LoopCompact
    \/ LoopApiFails
    \/ LoopApiReplies
    \/ LoopDeliver
    \/ LoopRepoll
    \/ LoopDelivered

SpecLoop == InitLoop /\ [][NextLoop]_vars

\* The loop is one goroutine that runs whenever it can take a step.
SpecLoopFair == SpecLoop /\ WF_vars(NextLoop)

-----------------------------------------------------------------------------
(* Properties of AutonomousLoop.                                           *)

LoopDone == pc = "l_done"

LastEvent == gh.events[Len(gh.events)]

Outcomes == {"sentinel", "cap", "abort"}

FinalEventPublished ==
    /\ LoopDone
    /\ gh.outcome \in Outcomes
    /\ LastEvent.type = "complete"

\* the loop is inside the re-poll of lines 178-182
Repolling == pc \in {"l_repoll", "l_check"}

\* C12 as claimed: every run ends in one of the three outcomes with a final
\* complete event.
C12_EveryRunTerminates == <>FinalEventPublished

\* C12 as the program has it: a run with an iteration cap (MaxIterations > 0)
\* that does not stay in the still-working re-poll forever ends in one of the
\* three outcomes with a final complete event.
C12_CappedRunTerminatesUnlessRepolling ==
    (env.MaxIterations > 0 /\ []<>(~Repolling)) => <>FinalEventPublished

\* C12's case: a capped run that delivered, failed API calls in between, and
\* ended at its cap.
C12_Witness ==
    /\ FinalEventPublished
    /\ env.MaxIterations > 0
    /\ gh.outcome = "cap"
    /\ gh.deliveries >= 1
    /\ \E k \in DOMAIN gh.results : gh.results[k] = "fail"

ApiCalls == Len(gh.results)

Succeeded == {k \in DOMAIN gh.results : gh.results[k] = "ok"}

Failed == {k \in DOMAIN gh.results : gh.results[k] = "fail"}

\* how many calls failed since the last one that succeeded
RECURSIVE TrailingFailures(_)
TrailingFailures(results) ==
    IF results = <<>> \/ results[Len(results)] = "ok"
    THEN 0
    ELSE 1 + TrailingFailures(SubSeq(results, 1, Len(results) - 1))

\* the exact marker is in the text the loop tested
MarkerSeen == \E l \in DOMAIN loc.reply : \E w \in DOMAIN loc.reply[l] :
                  loc.reply[l][w] = "TASK_COMPLETE"

\* C13: the complete event that ends a run tells the outcome: no error
\* exactly when the last call succeeded and its reply held the marker, the
\* abort reason exactly when the third API call in a row had failed, the
\* maximum-iterations error exactly when the loop test found i above the cap.
C13_CompleteEventTellsOutcome ==
    LoopDone =>
        /\ LastEvent.type = "complete"
        /\ LastEvent.error \in {Nil, AbortError, MaxIterationsError}
        /\ LastEvent.error = Nil <=>
               (ApiCalls > 0 /\ gh.results[ApiCalls] = "ok" /\ MarkerSeen)
        /\ LastEvent.error = AbortError <=>
               TrailingFailures(gh.results) = MaxAPIErrors
        /\ LastEvent.error = MaxIterationsError <=>
               (/\ env.MaxIterations > 0
                /\ loc.i = env.MaxIterations + 1
                /\ TrailingFailures(gh.results) = 0
                /\ ~MarkerSeen)

\* C13's case: a run that ended by the marker after a failed call and a
\* delivery.
C13_Witness ==
    /\ LoopDone
    /\ LastEvent.error = Nil
    /\ gh.deliveries >= 1
    /\ Failed # {}

\* C14: the third API failure in a row ends the run with the abort event, so
\* no call follows it; a run in which every call of line 98 fails makes
\* exactly 3 of them, sleeps after the first and the second only, and
\* delivers nothing.
C14_ThreeFailuresAbort ==
    /\ TrailingFailures(gh.results) <= MaxAPIErrors
    /\ TrailingFailures(gh.results) = MaxAPIErrors =>
           /\ LoopDone
           /\ LastEvent = Event("complete", loc.i, AbortError)
    /\ Succeeded = {} =>
           /\ ApiCalls <= 3
           /\ gh.deliveries = 0
           /\ gh.sleeps = (IF ApiCalls <= 2 THEN ApiCalls ELSE 2)
           /\ LoopDone => (ApiCalls = 3 /\ LastEvent.error = AbortError)

C14_Witness ==
    /\ LoopDone
    /\ Succeeded = {}
    /\ ApiCalls = 3
    /\ gh.sleeps = 2

\* C15: the iteration_start that follows the error event of a failed API
\* call carries the iteration number of that call again, whatever
\* MaxIterations is, and failed calls take nothing from the successful calls
\* a capped run may make.
C15_FailedCallRetriesSameIteration ==
    /\ \A k \in DOMAIN gh.events :
         (/\ k < Len(gh.events)
          /\ gh.events[k].type = "error"
          /\ gh.events[k + 1].type = "iteration_start") =>
             gh.events[k + 1].iteration = gh.events[k].iteration
    /\ (env.MaxIterations > 0 /\ gh.outcome = "cap") =>
           Cardinality(Succeeded) = env.MaxIterations

\* C16: consecutiveAPIErrors is the number of calls that failed since the
\* last one that succeeded, so a run is aborted only with 3 failures in a row
\* and failures that successes separate never abort it.
C16_SuccessResetsErrorCounter ==
    /\ pc # "l_start" => loc.consecutiveAPIErrors = TrailingFailures(gh.results)
    /\ gh.outcome = "abort" =>
           /\ ApiCalls >= MaxAPIErrors
           /\ \A k \in (ApiCalls - MaxAPIErrors + 1)..ApiCalls :
                  gh.results[k] = "fail"

\* C16's case: 3 or more failures in one run, separated by successes, and
\* the run completed by the marker.
C16_Witness ==
    /\ LoopDone
    /\ gh.outcome = "sentinel"
    /\ Cardinality(Failed) >= MaxAPIErrors
    /\ gh.deliveries >= 1

\* C17: a reply of the API that holds the marker anywhere ends the run in
\* that iteration: it is the last reply, the history ends with it as the
\* assistant turn, the last events are iteration_end and a complete without
\* error, and nothing of it was delivered.
C17_MarkerAnywhereEndsRun ==
    \A k \in DOMAIN gh.replies :
        ContainsMarker(gh.replies[k]) =>
            /\ LoopDone
            /\ k = Len(gh.replies)
            /\ gh.outcome = "sentinel"
            /\ gh.deliveries = k - 1
            /\ loc.messages[Len(loc.messages)].role = "assistant"
            /\ Len(gh.events) >= 2
            /\ gh.events[Len(gh.events) - 1].type = "iteration_end"
            /\ LastEvent = Event("complete", loc.i, Nil)

\* the replies so far are sentinel-free instructions, then one with the marker
ScriptedRun ==
    /\ Failed = {}
    /\ gh.replies # <<>>
    /\ ContainsMarker(gh.replies[Len(gh.replies)])
    /\ \A k \in 1..(Len(gh.replies) - 1) : ~ContainsMarker(gh.replies[k])
    /\ env.MaxIterations = 0 \/ Len(gh.replies) <= env.MaxIterations

\* C18: when every API call succeeds, with k sentinel-free instructions and
\* then a reply that holds the marker, the run makes k + 1 calls and k
\* deliveries and ends with a complete event without error for iteration
\* k + 1.
C18_ScriptedRunCounts ==
    ScriptedRun =>
        /\ LoopDone
        /\ ApiCalls = Len(gh.replies)
        /\ gh.deliveries = ApiCalls - 1
        /\ LastEvent = Event("complete", ApiCalls, Nil)

\* C18's case that the program has: one instruction delivered, then the
\* marker, 2 calls and iteration 2.
C18_Witness ==
    /\ ScriptedRun
    /\ LoopDone
    /\ ApiCalls = 2
    /\ gh.deliveries = 1
    /\ LastEvent = Event("complete", 2, Nil)

\* every call of line 98 so far succeeded with a reply without the marker
NeverSentinel ==
    /\ Failed = {}
    /\ \A k \in DOMAIN gh.replies : ~ContainsMarker(gh.replies[k])

\* C19: a run with MaxIterations = N > 0 never has more than N successful
\* API calls; when every call succeeds with a reply without the marker, the
\* run makes no more than N calls and ends only after exactly N, with a
\* complete event for iteration N whose error is the maximum-iterations one.
C19_CapBoundsSuccessfulCalls ==
    env.MaxIterations > 0 =>
        /\ Cardinality(Succeeded) <= env.MaxIterations
        /\ NeverSentinel =>
               /\ ApiCalls <= env.MaxIterations
               /\ LoopDone =>
                      /\ ApiCalls = env.MaxIterations
                      /\ gh.outcome = "cap"
                      /\ LastEvent = Event("complete", env.MaxIterations,
                                           MaxIterationsError)

\* C19's case: a run with N = 2 whose 2 calls succeeded without the marker
\* and that ended at the cap.
C19_Witness ==
    /\ LoopDone
    /\ env.MaxIterations = 2
    /\ NeverSentinel
    /\ ApiCalls = 2
    /\ gh.outcome = "cap"

\* the last iteration_end published so far carries an error
LastIterationEndFailed ==
    \E k \in DOMAIN gh.events :
        /\ gh.events[k].type = "iteration_end"
        /\ gh.events[k].error # Nil
        /\ \A j \in (k + 1)..Len(gh.events) : gh.events[j].type # "iteration_end"

\* the turn holds the text "Error sending to Claude Code: <err>"
IsErrorTextOf(turn, err) ==
    /\ turn.role = "user"
    /\ ~turn.err.nil
    /\ turn.err.ph = {"Error sending to Claude Code"} \cup err.ph

\* C20: a delivery that failed with an error other than still-working does
\* not end the run: the step that handles it publishes iteration_end with
\* the error, appends the reply as an assistant turn and the error text as a
\* user turn, and goes on to the loop test of the next iteration; the API
\* call that follows is made with that history, the error text last.
C20_FailedDeliveryContinues ==
    [][/\ (pc = "l_check" /\ ~ret.err.nil /\ ~StillWorking(ret.err)) =>
            /\ pc' = "l_test"
            /\ gh'.outcome = "none"
            /\ loc'.i = loc.i + 1
            /\ gh'.events = Append(gh.events,
                   Event("iteration_end", loc.i, Wrap({"tmux error"}, ret.err)))
            /\ Len(loc'.messages) = Len(loc.messages) + 2
            /\ SubSeq(loc'.messages, 1, Len(loc.messages)) = loc.messages
            /\ loc'.messages[Len(loc.messages) + 1] = AssistantTurn(loc.reply)
            /\ IsErrorTextOf(loc'.messages[Len(loc.messages) + 2], ret.err)
       /\ Len(gh'.results) > Len(gh.results) =>
            /\ gh'.sent = loc.messages
            /\ LastIterationEndFailed =>
                   IsErrorTextOf(gh'.sent[Len(gh'.sent)], ret.err)
      ]_vars

\* C20's case: after a delivery that failed, the API was called again and
\* its reply is about to be delivered.
C20_Witness ==
    /\ pc = "l_deliver"
    /\ LastIterationEndFailed
    /\ gh.deliveries >= 1
    /\ gh.sent[Len(gh.sent)].kind = "error"

\* C21: while the wait reports still-working the loop keeps waiting on the
\* same pane: the step that handles a still-working result and the re-poll
\* that follows it make no API call, send nothing, publish no event (the
\* observer is unchanged) and leave the baseline lastPane and the history as
\* they were.
C21_StillWorkingKeepsWaiting ==
    [][/\ (pc = "l_check" /\ StillWorking(ret.err)) =>
            /\ pc' = "l_repoll"
            /\ gh' = gh
            /\ loc'.lastPane = loc.lastPane
            /\ loc'.messages = loc.messages
            /\ loc'.i = loc.i
       /\ pc = "l_repoll" =>
            /\ pc' = "l_check"
            /\ gh' = gh
            /\ loc' = loc
      ]_vars

\* C21's case: after one delivery that settled, a later delivery was answered
\* by still-working and the loop is about to re-poll with the settled text.
C21_Witness ==
    /\ pc = "l_repoll"
    /\ StillWorking(ret.err)
    /\ loc.lastPane # <<>>
    /\ ret.val = loc.lastPane
    /\ gh.deliveries >= 2

IsPrefix(s, t) == Len(s) <= Len(t) /\ SubSeq(t, 1, Len(s)) = s

\* the list without its system turn
AfterSystemTurn(messages) == IF messages = <<>> THEN <<>> ELSE Tail(messages)

\* the iterations that published their iteration_end
CompletedIterations ==
    Cardinality({k \in DOMAIN gh.events : gh.events[k].type = "iteration_end"})

\* a system turn, the task, then (assistant, user) pairs, one per completed
\* iteration
HistoryShape(messages, j) ==
    /\ Len(messages) = 2 + 2 * j
    /\ messages[1].role = "system"
    /\ messages[2] = TaskTurn
    /\ \A n \in 1..j : /\ messages[2 * n + 1].role = "assistant"
                       /\ messages[2 * n + 2].role = "user"

RECURSIVE FactsSince(_)
FactsSince(k) ==
    IF k > Len(gh.replies) THEN {}
    ELSE LET facts == ExtractMemorySaves(gh.replies[k]).facts
         IN  {facts[n] : n \in DOMAIN facts} \cup FactsSince(k + 1)

Saved == {gh.saved.facts[n] : n \in DOMAIN gh.saved.facts}

\* C23 as claimed: at every exit memory.SaveMemory is called exactly when the
\* fact list is not empty, with a list that holds every fact extracted during
\* the run; a run that loaded and extracted no fact saves nothing.
C23_FactsSavedOnEveryExit ==
    LoopDone =>
        /\ gh.saved.called <=> Len(loc.memories) > 0
        /\ gh.saved.called => (gh.saved.facts = loc.memories /\ FactsSince(1) \subseteq Saved)
        /\ ~gh.saved.called => ~env.file.written

\* C23 as the program has it: at every exit memory.SaveMemory is called
\* exactly when the fact list is not empty, with the fact list as it is at
\* exit, which holds every fact extracted since the last memory compaction
\* that succeeded (all of them when none did); when the list is empty
\* nothing is written.
C23_FactsSinceCompactionSavedOnEveryExit ==
    LoopDone =>
        /\ gh.saved.called <=> Len(loc.memories) > 0
        /\ gh.saved.called =>
               /\ gh.saved.facts = loc.memories
               /\ FactsSince(gh.compactedAfter + 1) \subseteq Saved
        /\ ~gh.saved.called => ~env.file.written
        /\ env.file.written => env.file.facts = loc.memories

\* C23's case: a run that extracted a fact after its last compaction, ended
\* at the cap and wrote the file.
C23_Witness ==
    /\ LoopDone
    /\ gh.outcome = "cap"
    /\ gh.compactCalls >= 1
    /\ FactsSince(gh.compactedAfter + 1) # {}
    /\ env.file.written

\* C24: no line of the text passed to SendAndCaptureWithRecovery begins with
\* MEMORY_SAVE:, whether a fact follows the prefix or not.
C24_NoMemorySaveLineDelivered ==
    \A l \in DOMAIN gh.delivered :
        gh.delivered[l] = <<>> \/ Head(gh.delivered[l]) # MemorySavePrefix

-----------------------------------------------------------------------------
(* SSEBroker (package dashboard): the fan-out of events to the clients of  *)
(* the dashboard.  Publish, Subscribe and the unsubscribe function run in  *)
(* goroutines of their own; the variables hold                             *)
(*   pc     for every goroutine, its position                              *)
(*   loc    for every goroutine, its locals: the event and the clients a   *)
(*          Publish ranges over, the messages a client received            *)
(*   env    the broker: mu, clients, lastTaskInfo (isNil: a nil *SSEBroker)*)
(*   hist   the channels Subscribe made: buffer and closed flag            *)
(*   budget the Publish calls still to come                                *)
(*   gh     the observer: the events in the order Publish took the lock,   *)
(*          what was enqueued on and dropped for every channel, when each  *)
(*          client was added, the closes, and whether a goroutine panicked *)

\* line 58: make(chan string, 64)
QueueCap == 64

(* Bounds of the model.                                                    *)

\* the Publish calls of a run in which clients come and go
MaxPublishes == 2

\* the Publish calls of a run against clients that stay (70 in
\* TestSSEBroker_SlowClientDrop)
SlowPublishes == 70

\* how often a client calls the unsubscribe function it was given
MaxUnsubscribes == 2

Publishers == {"p1", "p2"}

Subscribers == {"s1", "s2"}

\* the client that reads its channel in the runs against clients that stay
SlowReader == "s2"

\* IterationEvent.Type: task_info, and iteration_end for every other type
EventTypes == {"task_info", "iteration_end"}

\* line 93: fmt.Sprintf("data: %s\n\n", data); never the empty string
Payload(event) == <<"data:", event>>

\* the zero value of lastTaskInfo
NoPayload == <<>>

\* NewSSEBroker, lines 51-53
NewSSEBroker ==
    [isNil |-> FALSE, mu |-> "free", clients |-> <<>>, lastTaskInfo |-> NoPayload]

NoChan == [made |-> FALSE, closed |-> FALSE, buf |-> <<>>]

NoBrokerLocals ==
    [event |-> [type |-> "none", id |-> 0], snap |-> <<>>, i |-> 0,
     got |-> <<>>, sawClosed |-> FALSE, frames |-> <<>>]

\* b.mu.Lock() returns only when no goroutine holds mu
MutexAlwaysFree(mu) == TRUE

MutexFree(mu) == mu = "free"

\* the select of lines 100-103 sends only when the buffer has room
HasRoomOneMore(buf) == Len(buf) <= QueueCap

HasRoom(buf) == Len(buf) < QueueCap

\* lines 100-103: the select has a default case, so the send never waits
SendWaitsForRoom(buf) == Len(buf) < QueueCap

SendProceeds(buf) == TRUE

\* line 96
RetainedAny(type) == TRUE

Retained(type) == type = "task_info"

\* line 62
Replays(last) == last # NoPayload

\* the range of line 99 goes on to the next client, sent or dropped
RangeStopsOnDrop(i, n, sent) == IF sent THEN i + 1 ELSE n + 1

RangeRepeatsSend(i, n, sent) == IF sent THEN i ELSE i + 1

RangeNext(i, n, sent) == i + 1

\* line 74: the list without its k-th element
RemoveNone(clients, k) == clients

RemoveAt(clients, k) ==
    SubSeq(clients, 1, k - 1) \o SubSeq(clients, k + 1, Len(clients))

\* lines 72-73: the first index that holds ch, 0 when there is none
IndexOfFirst(clients, ch) == IF clients # <<>> THEN 1 ELSE 0

IndexOf(clients, ch) ==
    IF \E k \in DOMAIN clients : clients[k] = ch
    THEN CHOOSE k \in DOMAIN clients :
             clients[k] = ch /\ \A j \in 1..(k - 1) : clients[j] # ch
    ELSE 0

BrokerIdle == UNCHANGED <<stack, now, ret>>

\* Publish, lines 85-93: a nil broker returns at once; json.Marshal of an
\* IterationEvent does not fail
PublishCallOf(p, types) ==
    /\ pc[p] = "idle"
    /\ budget > 0
    /\ budget' = budget - 1
    /\ \E type \in types :
         LET event == [type |-> type, id |-> gh.calls + 1]
         IN  IF env.isNil
             THEN /\ gh' = [gh EXCEPT !.calls = @ + 1, !.returns = @ + 1]
                  /\ UNCHANGED <<pc, loc>>
             ELSE /\ gh' = [gh EXCEPT !.calls = @ + 1]
                  /\ pc' = [pc EXCEPT ![p] = "pub_lock"]
                  /\ loc' = [loc EXCEPT ![p].event = event]
    /\ UNCHANGED <<env, hist>>
    /\ BrokerIdle

PublishCall(p) == PublishCallOf(p, EventTypes)

\* lines 94-99: take mu, retain a task_info, start the range over clients
PublishLock(p) ==
    /\ pc[p] = "pub_lock"
    /\ MutexFree(env.mu)
    /\ env' = [env EXCEPT
                 !.mu = p,
                 !.lastTaskInfo = IF Retained(loc[p].event.type)
                                  THEN Payload(loc[p].event) ELSE @]
    /\ loc' = [loc EXCEPT ![p].snap = env.clients, ![p].i = 1]
    /\ gh' = [gh EXCEPT !.published = Append(@, loc[p].event)]
    /\ pc' = [pc EXCEPT ![p] = "pub_send"]
    /\ UNCHANGED <<hist, budget>>
    /\ BrokerIdle

\* lines 99-105: one round of the range (a send on a closed channel panics),
\* or its end and the deferred Unlock
PublishSend(p) ==
    /\ pc[p] = "pub_send"
    /\ LET i  == loc[p].i
           n  == Len(loc[p].snap)
           id == loc[p].event.id
       IN  IF i > n
           THEN /\ env' = [env EXCEPT !.mu = "free"]
                /\ pc' = [pc EXCEPT ![p] = "idle"]
                /\ gh' = [gh EXCEPT !.returns = @ + 1]
                /\ UNCHANGED <<loc, hist>>
           ELSE LET ch == loc[p].snap[i]
                IN  IF hist[ch].closed
                    THEN /\ env' = [env EXCEPT !.mu = "free"]
                         /\ pc' = [pc EXCEPT ![p] = "panic"]
                         /\ gh' = [gh EXCEPT !.panic = TRUE]
                         /\ UNCHANGED <<loc, hist>>
                    ELSE /\ SendProceeds(hist[ch].buf)
                         /\ IF HasRoom(hist[ch].buf)
                            THEN /\ hist' = [hist EXCEPT ![ch].buf =
                                        Append(@, Payload(loc[p].event))]
                                 /\ gh' = [gh EXCEPT !.enq[ch] = Append(@, id)]
                            ELSE /\ gh' = [gh EXCEPT !.drops[ch] = Append(@, id)]
                                 /\ UNCHANGED hist
                         /\ loc' = [loc EXCEPT ![p].i =
                                RangeNext(i, n, HasRoom(hist[ch].buf))]
                         /\ UNCHANGED <<pc, env>>
    /\ UNCHANGED budget
    /\ BrokerIdle

\* Subscribe, line 58
SubscribeMake(s) ==
    /\ pc[s] = "idle"
    /\ ~env.isNil
    /\ hist' = [hist EXCEPT ![s] = [made |-> TRUE, closed |-> FALSE, buf |-> <<>>]]
    /\ pc' = [pc EXCEPT ![s] = "sub_lock"]
    /\ UNCHANGED <<loc, env, budget, gh>>
    /\ BrokerIdle

\* Subscribe, lines 59-68: under mu, add the channel and replay the retained
\* task_info (the new channel is empty, so the send finds room)
SubscribeLocked(s) ==
    /\ pc[s] = "sub_lock"
    /\ MutexFree(env.mu)
    /\ env' = [env EXCEPT !.clients = Append(@, s)]
    /\ LET replay == Replays(env.lastTaskInfo) /\ HasRoom(hist[s].buf)
       IN  /\ hist' = [hist EXCEPT ![s].buf =
                          IF replay THEN Append(@, env.lastTaskInfo) ELSE @]
           /\ gh' = [gh EXCEPT
                       !.addedAfter[s] = Len(gh.published),
                       !.replayed[s] = IF replay THEN env.lastTaskInfo
                                                 ELSE NoPayload]
    /\ pc' = [pc EXCEPT ![s] = "sub_on"]
    /\ UNCHANGED <<loc, budget>>
    /\ BrokerIdle

\* a receive on the channel Subscribe returned (lines 138-143 of the
\* /events handler, the tests): the oldest buffered message, or 'closed'
\* when the channel is closed and empty; it waits otherwise
Receive(s) ==
    /\ pc[s] = "sub_on"
    /\ ~loc[s].sawClosed
    /\ IF hist[s].buf # <<>>
       THEN /\ loc' = [loc EXCEPT ![s].got = Append(@, Head(hist[s].buf))]
            /\ hist' = [hist EXCEPT ![s].buf = Tail(@)]
       ELSE /\ hist[s].closed
            /\ loc' = [loc EXCEPT ![s].sawClosed = TRUE]
            /\ UNCHANGED hist
    /\ UNCHANGED <<pc, env, budget, gh>>
    /\ BrokerIdle

\* the unsubscribe function, lines 69-79 (close of a closed channel panics)
Unsubscribe(s) ==
    /\ pc[s] = "sub_on"
    /\ gh.unsubs[s] < MaxUnsubscribes
    /\ MutexFree(env.mu)
    /\ LET k == IndexOf(env.clients, s)
       IN  IF k = 0
           THEN /\ gh' = [gh EXCEPT !.unsubs[s] = @ + 1]
                /\ UNCHANGED <<env, hist, pc>>
           ELSE /\ env' = [env EXCEPT !.clients = RemoveAt(@, k)]
                /\ IF hist[s].closed
                   THEN /\ gh' = [gh EXCEPT !.panic = TRUE]
                        /\ pc' = [pc EXCEPT ![s] = "panic"]
                        /\ UNCHANGED hist
                   ELSE /\ hist' = [hist EXCEPT ![s].closed = TRUE]
                        /\ gh' = [gh EXCEPT !.unsubs[s] = @ + 1,
                                            !.closes[s] = @ + 1,
                                            !.bufAtClose[s] = hist[s].buf]
                        /\ UNCHANGED pc
    /\ UNCHANGED <<loc, budget>>
    /\ BrokerIdle

NoObserver(expect) ==
    [published |-> <<>>, calls |-> 0, returns |-> 0, panic |-> FALSE,
     expect |-> expect,
     enq |-> [s \in Subscribers |-> <<>>],
     drops |-> [s \in Subscribers |-> <<>>],
     addedAfter |-> [s \in Subscribers |-> 0],
     replayed |-> [s \in Subscribers |-> NoPayload],
     unsubs |-> [s \in Subscribers |-> 0],
     closes |-> [s \in Subscribers |-> 0],
     bufAtClose |-> [s \in Subscribers |-> <<>>]]

InitBrokerWith(broker, publishes, expect) ==
    /\ pc = [x \in Publishers \cup Subscribers |-> "idle"]
    /\ loc = [x \in Publishers \cup Subscribers |-> NoBrokerLocals]
    /\ env = broker
    /\ hist = [s \in Subscribers |-> NoChan]
    /\ budget = publishes
    /\ gh = NoObserver(expect)
    /\ stack = <<>>
    /\ now = 0
    /\ ret = [val |-> <<>>, err |-> Nil]

\* clients that come and go while two goroutines publish
InitBroker == InitBrokerWith(NewSSEBroker, MaxPublishes, 0)

NextBroker ==
    \/ \E p \in Publishers : PublishCall(p)
    \/ \E p \in Publishers : PublishLock(p)
    \/ \E p \in Publishers : PublishSend(p)
    \/ \E s \in Subscribers : SubscribeMake(s)
    \/ \E s \in Subscribers : SubscribeLocked(s)
    \/ \E s \in Subscribers : Receive(s)
    \/ \E s \in Subscribers : Unsubscribe(s)

SpecBroker == InitBroker /\ [][NextBroker]_vars

\* The runs against clients that stay (TestSSEBroker_SlowClientDrop,
\* TestPublish_NilBroker): 0, 1 or 2 clients subscribe, then one goroutine
\* publishes SlowPublishes events that are no task_info; one client reads,
\* the others never do.  The broker may be nil when nobody subscribes.
SlowSubscribeMake(s) ==
    /\ Cardinality({x \in Subscribers : hist[x].made}) < gh.expect
    /\ SubscribeMake(s)

SlowPublishCall(p) ==
    /\ Len(env.clients) = gh.expect
    /\ PublishCallOf(p, {"iteration_end"})

InitSlow ==
    \E expect \in 0..Cardinality(Subscribers), isNil \in BOOLEAN :
        /\ isNil => expect = 0
        /\ InitBrokerWith([NewSSEBroker EXCEPT !.isNil = isNil],
                          SlowPublishes, expect)

NextSlow ==
    \/ SlowPublishCall("p1")
    \/ PublishLock("p1")
    \/ PublishSend("p1")
    \/ \E s \in Subscribers : SlowSubscribeMake(s)
    \/ \E s \in Subscribers : SubscribeLocked(s)
    \/ Receive(SlowReader)

SpecSlow == InitSlow /\ [][NextSlow]_vars

-----------------------------------------------------------------------------
(* The /events handler of StartDashboard, lines 118-147 of dashboard.go:   *)
(* each client is a goroutine of the HTTP server that subscribes, writes   *)
(* frames to its response (loc[s].frames) and unsubscribes when it         *)
(* returns, while two goroutines publish.                                  *)

\* line 133: the frame that is no event of the broker
ConnectedFrame == <<"data:", [type |-> "connected", id |-> 0]>>

\* lines 133-134: the response after the handler's first write
FramesAfterConnectNothing(frames) == frames

FramesAfterConnect(frames) == Append(frames, ConnectedFrame)

\* lines 130-134: Subscribe has returned; the connected frame is written
HandlerConnected(s) ==
    /\ pc[s] = "sub_on"
    /\ loc' = [loc EXCEPT ![s].frames = FramesAfterConnect(@)]
    /\ pc' = [pc EXCEPT ![s] = "h_loop"]
    /\ UNCHANGED <<hist, env, budget, gh>>
    /\ BrokerIdle

\* lines 137-143: a message of the channel is written as it is; a closed
\* channel ends the handler
HandlerReceive(s) ==
    /\ pc[s] = "h_loop"
    /\ IF hist[s].buf # <<>>
       THEN /\ loc' = [loc EXCEPT ![s].got = Append(@, Head(hist[s].buf)),
                                  ![s].frames = Append(@, Head(hist[s].buf))]
            /\ hist' = [hist EXCEPT ![s].buf = Tail(@)]
            /\ UNCHANGED pc
       ELSE /\ hist[s].closed
            /\ loc' = [loc EXCEPT ![s].sawClosed = TRUE]
            /\ pc' = [pc EXCEPT ![s] = "h_defer"]
            /\ UNCHANGED hist
    /\ UNCHANGED <<env, budget, gh>>
    /\ BrokerIdle

\* lines 144-145: the client went away
HandlerContextDone(s) ==
    /\ pc[s] = "h_loop"
    /\ pc' = [pc EXCEPT ![s] = "h_defer"]
    /\ UNCHANGED <<loc, hist, env, budget, gh>>
    /\ BrokerIdle

\* line 131: the deferred unsubscribe (lines 69-79) runs as the handler
\* returns
HandlerReturn(s) ==
    /\ pc[s] = "h_defer"
    /\ MutexFree(env.mu)
    /\ LET k == IndexOf(env.clients, s)
       IN  IF k = 0
           THEN /\ gh' = [gh EXCEPT !.unsubs[s] = @ + 1]
                /\ pc' = [pc EXCEPT ![s] = "h_done"]
                /\ UNCHANGED <<env, hist>>
           ELSE /\ env' = [env EXCEPT !.clients = RemoveAt(@, k)]
                /\ IF hist[s].closed
                   THEN /\ gh' = [gh EXCEPT !.panic = TRUE]
                        /\ pc' = [pc EXCEPT ![s] = "panic"]
                        /\ UNCHANGED hist
                   ELSE /\ hist' = [hist EXCEPT ![s].closed = TRUE]
                        /\ gh' = [gh EXCEPT !.unsubs[s] = @ + 1,
                                            !.closes[s] = @ + 1,
                                            !.bufAtClose[s] = hist[s].buf]
                        /\ pc' = [pc EXCEPT ![s] = "h_done"]
    /\ UNCHANGED <<loc, budget>>
    /\ BrokerIdle

NextEvents ==
    \/ \E p \in Publishers : PublishCall(p)
    \/ \E p \in Publishers : PublishLock(p)
    \/ \E p \in Publishers : PublishSend(p)
    \/ \E s \in Subscribers : SubscribeMake(s)
    \/ \E s \in Subscribers : SubscribeLocked(s)
    \/ \E s \in Subscribers : HandlerConnected(s)
    \/ \E s \in Subscribers : HandlerReceive(s)
    \/ \E s \in Subscribers : HandlerContextDone(s)
    \/ \E s \in Subscribers : HandlerReturn(s)

SpecEvents == InitBroker /\ [][NextEvents]_vars

-----------------------------------------------------------------------------
(* Properties of the broker.                                               *)

Returned(p) == pc[p] = "idle"

\* every message the channel of s ever held, oldest first
Held(s) == loc[s].got \o hist[s].buf

Ids(seq) == {seq[k] : k \in DOMAIN seq}

\* C25: Publish never fails and never waits for a client: no goroutine
\* panics, a Publish on a nil broker has returned at once, a Publish that
\* holds mu can always take its next step (whatever the fill of the queues,
\* and with no client at all), and one that waits for mu waits for a Publish
\* that can.
C25_PublishNeverBlocks ==
    /\ ~gh.panic
    /\ gh.returns <= gh.calls
    /\ env.isNil => (gh.returns = gh.calls /\ \A p \in Publishers : Returned(p))
    /\ \A p \in Publishers :
         /\ pc[p] \in {"idle", "pub_lock", "pub_send"}
         /\ pc[p] = "pub_send" => (env.mu = p /\ ENABLED PublishSend(p))
         /\ pc[p] = "pub_lock" =>
                \/ ENABLED PublishLock(p)
                \/ \E q \in Publishers : env.mu = q /\ pc[q] = "pub_send"

\* C25's case: all the Publish calls returned although a client's queue was
\* full and events were dropped for it.
C25_Witness ==
    /\ gh.calls = SlowPublishes
    /\ gh.returns = SlowPublishes
    /\ \E s \in Subscribers : ~HasRoom(hist[s].buf) /\ gh.drops[s] # <<>>

\* the payloads of the events k .. m in the order of their publication
PayloadsOf(k, m) == [n \in 1..(m - k + 1) |-> Payload(gh.published[k + n - 1])]

Min(a, b) == IF a <= b THEN a ELSE b

C29_SubscribersAreIndependent ==
    [][\A p \in Publishers :
         /\ (pc[p] = "pub_send" /\ loc'[p].i # loc[p].i) =>
              LET ch == loc[p].snap[loc[p].i]
              IN  /\ Len(hist[ch].buf) < QueueCap =>
                         hist'[ch].buf = Append(hist[ch].buf, Payload(loc[p].event))
                  /\ Len(hist[ch].buf) >= QueueCap => hist'[ch] = hist[ch]
                  /\ \A c \in Subscribers \ {ch} : hist'[c] = hist[c]
         /\ (pc[p] = "pub_send" /\ pc'[p] = "idle") =>
              \A k \in DOMAIN loc[p].snap :
                  LET ch == loc[p].snap[k]
                  IN  loc[p].event.id \in Ids(gh.enq[ch]) \cup Ids(gh.drops[ch])
      ]_vars

\* C29's case: a client whose queue is full stands in the list before one
\* that reads, and the reader received an event that was dropped for the
\* full one.
C29_Witness ==
    /\ env.clients = <<"s1", "s2">>
    /\ ~HasRoom(hist["s1"].buf)
    /\ \E k \in DOMAIN loc["s2"].got :
           loc["s2"].got[k][2].id \in Ids(gh.drops["s1"])

\* the events published before the client s was added to the list
PublishedBefore(s) == SubSeq(gh.published, 1, gh.addedAfter[s])

\* the last task_info among them, 0 when there is none
LastTaskInfoBefore(s) ==
    LET infos == {k \in DOMAIN PublishedBefore(s) :
                      gh.published[k].type = "task_info"}
    IN  IF infos = {} THEN 0
        ELSE CHOOSE k \in infos : \A j \in infos : j <= k

\* C26: for a client added to the list after task_info events were
\* published, the first message its queue ever holds is the payload of the
\* last of them; no other event published before the client was added is
\* ever on its queue.
C26_LateSubscriberGetsLastTaskInfo ==
    \A s \in Subscribers :
        pc[s] = "sub_on" =>
            LET last == LastTaskInfoBefore(s)
            IN  /\ last > 0 =>
                       /\ gh.replayed[s] = Payload(gh.published[last])
                       /\ Held(s) # <<>> \/ gh.closes[s] > 0
                       /\ loc[s].got # <<>> =>
                              loc[s].got[1] = Payload(gh.published[last])
                       /\ (loc[s].got = <<>> /\ hist[s].buf # <<>>) =>
                              hist[s].buf[1] = Payload(gh.published[last])
                /\ \A k \in DOMAIN PublishedBefore(s) :
                       (\E n \in DOMAIN Held(s) :
                            Held(s)[n] = Payload(gh.published[k])) => k = last

\* C26's case: a task_info and then another event were published before the
\* client subscribed, and the client received the task_info.
C26_Witness ==
    \E s \in Subscribers :
        /\ pc[s] = "sub_on"
        /\ gh.addedAfter[s] = 2
        /\ gh.published[1].type = "task_info"
        /\ gh.published[2].type = "iteration_end"
        /\ loc[s].got = <<Payload(gh.published[1])>>

IsSuffix(s, t) ==
    Len(s) <= Len(t) /\ SubSeq(t, Len(t) - Len(s) + 1, Len(t)) = s

\* a closed channel is out of the list, nothing is sent on it and no
\* goroutine panics; a receive that reported closed found it closed and empty
UnsubscribedQueueIsGone ==
    /\ ~gh.panic
    /\ \A s \in Subscribers :
         /\ hist[s].closed => (/\ \A k \in DOMAIN env.clients : env.clients[k] # s
                               /\ IsSuffix(hist[s].buf, gh.bufAtClose[s]))
         /\ loc[s].sawClosed => (hist[s].closed /\ hist[s].buf = <<>>)
         /\ (hist[s].closed /\ hist[s].buf = <<>> /\ ~loc[s].sawClosed) =>
                ENABLED Receive(s)
    /\ \A p \in Publishers : pc[p] = "pub_send" => ENABLED PublishSend(p)

\* C28 as claimed: once the unsubscribe function has run the channel yields
\* no further value, whatever was published before or after; it is out of
\* the list and a later Publish completes.
C28_NoValueAfterUnsubscribe ==
    /\ []UnsubscribedQueueIsGone
    /\ [][\A s \in Subscribers : hist[s].closed => loc'[s].got = loc[s].got]_vars

\* C28 as the program has it: once the unsubscribe function has run the
\* channel yields only the values that were in its buffer at that moment, in
\* their order, and after them a receive reports closed; nothing is sent on
\* it any more, it is out of the list and a later Publish completes.
C28_OnlyBufferedValuesAfterUnsubscribe ==
    /\ []UnsubscribedQueueIsGone
    /\ [][\A s \in Subscribers :
             hist[s].closed =>
                 /\ IsSuffix(hist'[s].buf, hist[s].buf)
                 /\ loc'[s].got \o hist'[s].buf = loc[s].got \o hist[s].buf
         ]_vars

\* C28's case: a client unsubscribed with a message still in its buffer,
\* received it, was told 'closed', and a Publish made after that returned.
C28_Witness ==
    \E s \in Subscribers :
        /\ gh.closes[s] = 1
        /\ gh.bufAtClose[s] # <<>>
        /\ loc[s].sawClosed
        /\ gh.returns = MaxPublishes
        /\ gh.published[MaxPublishes].id \notin Ids(gh.enq[s])

\* C30: under every interleaving no goroutine sends on or closes a closed
\* channel (either would panic), a channel is closed at most once, a Publish
\* that ranges over the clients has none that is closed before it, and the
\* list holds, once each, exactly the channels of the clients that
\* Subscribe added and that have not run their unsubscribe function.
C30_SubscriberListStaysConsistent ==
    /\ ~gh.panic
    /\ \A x \in Publishers \cup Subscribers : pc[x] # "panic"
    /\ \A s \in Subscribers :
         /\ gh.closes[s] <= 1
         /\ (gh.closes[s] = 1) <=> hist[s].closed
         /\ (\E k \in DOMAIN env.clients : env.clients[k] = s) <=>
                (pc[s] = "sub_on" /\ gh.closes[s] = 0)
    /\ Len(env.clients) = Cardinality(Ids(env.clients))
    /\ \A p \in Publishers :
         pc[p] = "pub_send" =>
             /\ env.mu = p
             /\ \A k \in loc[p].i..Len(loc[p].snap) : ~hist[loc[p].snap[k]].closed

\* C30's case: a client has unsubscribed, the other waits for mu to be
\* added, and one Publish holds mu while the other waits for it.
C30_Witness ==
    /\ \E s, t \in Subscribers : gh.closes[s] = 1 /\ pc[t] = "sub_lock"
    /\ \E p, q \in Publishers : pc[p] = "pub_send" /\ pc[q] = "pub_lock"

-----------------------------------------------------------------------------
(* Properties of the readiness gate.  gh.seen is the text of the last      *)
(* capture of the gate that worked.                                        *)

\* the gate ended because readiness was not reached within the timeout
GateTimedOut == pc = "done" /\ Contains(ret.err, "not ready within")

\* C33: when the readiness gate fails because readiness was not reached
\* within the timeout, the error it returns carries the last pane text the
\* gate observed.
C33_TimeoutErrorCarriesLastPane ==
    GateTimedOut /\ gh.seen # "" => Contains(ret.err, PaneOutput(gh.seen))

\* the message quotes a pane
QuotesPane(err) == \E t \in PaneTexts \cup {""} : Contains(err, PaneOutput(t))

\* C33, amended: the error of a gate that ran out of time carries the last
\* error the gate observed, of a capture or of the settle check, and no pane
\* text; the only error of the gate that quotes the pane is the one for a
\* pane whose process has exited.
C33_TimeoutErrorCarriesLastError ==
    /\ GateTimedOut =>
          /\ ~loc.rLastErr.nil
          /\ loc.rLastErr.ph \subseteq ret.err.ph
          /\ ~QuotesPane(ret.err)
    /\ pc = "done" /\ QuotesPane(ret.err) => Contains(ret.err, "process exited")

\* C33: the gate ran out of time after a capture of it had worked
C33_Witness == GateTimedOut /\ gh.seen # ""

-----------------------------------------------------------------------------
(* Properties of restartClaudeSession.  gh.killErr is what its             *)
(* kill-session returned, gh.kills and gh.creates count the kill-session   *)
(* and new-session commands of the call in progress.                       *)

\* the messages tmux gives for a target that is not there
NotFoundPhrases ==
    {"can't find session", "no server running", "no current target",
     "error connecting to"}

\* restartClaudeSession runs its kill-session in this step
KillStep == pc = "k_kill" /\ gh'.kills = gh.kills + 1

\* createSession returns to restartClaudeSession in this step
CreatedStep == pc = "k_created" /\ pc' # "k_created"

\* C35: restartClaudeSession ignores a kill-session failure that says the
\* session or the server is not there, and goes on to createSession and,
\* once the session is created, to the readiness gate; any other
\* kill-session failure is returned to the caller, wrapped, and no
\* new-session is run.
C35_RestartToleratesGoneSession ==
    /\ [][KillStep =>
            IF gh'.killErr.nil \/ gh'.killErr.ph \cap NotFoundPhrases # {}
            THEN /\ pc' = "c_new"
                 /\ Head(stack') = "k_created"
                 /\ ~(env'.server /\ env'.sess)
            ELSE /\ pc' = Head(stack)
                 /\ ~ret'.err.nil
                 /\ gh'.killErr.ph \subseteq ret'.err.ph
                 /\ Contains(ret'.err, "restartClaudeSession: kill session")
                 /\ gh'.creates = gh.creates
                 /\ env'.gen = env.gen]_vars
    /\ [][CreatedStep =>
            IF ret.err.nil
            THEN pc' = "r_enter" /\ stack' = stack
            ELSE pc' = Head(stack) /\ ret'.err = ret.err]_vars
    /\ [](pc = "c_new" /\ Head(stack) = "k_created" /\ ~gh.killErr.nil
            => gh.killErr.ph \cap NotFoundPhrases # {})

\* C35: the kill-session of a restart found no session, the session was
\* created again and the readiness gate is about to run on it
C35_Witness ==
    /\ pc = "r_enter"
    /\ gh.kills > 0
    /\ Contains(gh.killErr, "can't find session")
    /\ gh.creates > 0
    /\ env.sess

\* createSession runs its new-session in this step
NewSessionStep == pc = "c_new" /\ gh'.creates = gh.creates + 1

\* C34: at most one session of the name exists: new-session is run only
\* while the session is absent, in EnsureClaudeSession after has-session
\* reported it missing and in restartClaudeSession after a kill-session
\* that succeeded or reported not-found, so tmux never has to refuse a
\* duplicate and every new-session that succeeds makes the one session.
C34_NewSessionOnlyWhenAbsent ==
    /\ [][NewSessionStep =>
            /\ ~(env.server /\ env.sess)
            /\ Head(stack) \in {"e_created", "k_created"}
            /\ Head(stack) = "k_created" =>
                  gh.killErr.nil \/ gh.killErr.ph \cap NotFoundPhrases # {}
            /\ env'.gen \in {env.gen, env.gen + 1}
            /\ env'.gen = env.gen + 1 => env'.sess]_vars
    /\ [](~Contains(ret.err, "duplicate session"))

\* C34: a call killed the session the environment had left with a dead
\* pane, and its new-session has just made the session again
C34_Witness ==
    /\ pc = "c_exitempty"
    /\ Head(stack) = "k_created"
    /\ gh.kills > 0 /\ gh.killErr.nil
    /\ gh.ev > 0
    /\ env.sess /\ env.gen >= 2

-----------------------------------------------------------------------------
(* More properties of AutonomousLoop.  gh.compactErr is the error of the   *)
(* last call of memory.CompactMemory.                                      *)

\* the loop's call of memory.CompactMemory returns in this step
CompactStep == pc = "l_compact" /\ gh'.compactCalls = gh.compactCalls + 1

\* C36: CompactMemory is called only with more than MaxFacts facts; when it
\* returns an error, the fact list, the system turn and the rest of the
\* history stay as they were and the iteration goes on to its API call; the
\* system turn changes only when CompactMemory returned without an error,
\* and then it is built from the facts CompactMemory returned.
C36_FailedCompactionChangesNothing ==
    /\ [](pc = "l_compact" => Len(loc.memories) > MaxFacts)
    /\ [][CompactStep =>
            /\ pc' = "l_api"
            /\ ~gh'.compactErr.nil => loc' = loc
            /\ gh'.compactErr.nil =>
                  /\ loc'.messages =
                        [loc.messages EXCEPT ![1] = SystemTurn(loc'.memories)]
                  /\ Len(loc'.memories) <= Len(loc.memories)]_vars
    /\ [][/\ loc.messages # <<>>
          /\ loc'.messages[1] # loc.messages[1]
          => /\ CompactStep
             /\ gh'.compactErr.nil
             /\ loc'.messages[1] = SystemTurn(loc'.memories)]_vars

\* C36: the API call that follows a failed compaction is about to be made,
\* with facts extracted since the system turn was built
C36_Witness ==
    /\ pc = "l_api"
    /\ gh.compactCalls >= 1
    /\ ~gh.compactErr.nil
    /\ Len(loc.memories) > MaxFacts
    /\ loc.messages[1] # SystemTurn(loc.memories)

\* the places of the events of a type in the order of publication
EventsOfType(type) == {k \in DOMAIN gh.events : gh.events[k].type = type}

\* C37: task_info is the first event published and is published once; a
\* complete event is published only by a run that returns with it, so it is
\* the last event and nothing is published after it; a run that has
\* returned has published exactly one complete event.
C37_TaskInfoFirstCompleteLast ==
    /\ gh.events # <<>> => EventsOfType("task_info") = {1}
    /\ EventsOfType("complete") \subseteq {Len(gh.events)}
    /\ EventsOfType("complete") # {} => LoopDone
    /\ LoopDone => EventsOfType("complete") = {Len(gh.events)}
    /\ pc # "l_start" => gh.events # <<>>

\* C37: a run that met a failed API call and a delivery has returned at the
\* completion marker
C37_Witness ==
    /\ LoopDone
    /\ gh.outcome = "sentinel"
    /\ EventsOfType("error") # {}
    /\ gh.deliveries >= 1
    /\ Len(gh.events) >= 7

\* the call of line 98 fails in this step
ApiFailStep == pc = "l_api" /\ gh'.results = Append(gh.results, "fail")

\* the events published in this step
NewEvents == SubSeq(gh'.events, Len(gh.events) + 1, Len(gh'.events))

\* What a failed API call leaves alone, and what it publishes: the history,
\* the facts, the baseline and the last reply stay, the error counter goes
\* up by one, nothing is delivered, and the events are one error event and,
\* when the counter reached MaxAPIErrors, the complete event.
FailedCallFrame ==
    /\ loc'.messages = loc.messages
    /\ loc'.memories = loc.memories
    /\ loc'.lastPane = loc.lastPane
    /\ loc'.reply = loc.reply
    /\ loc'.consecutiveAPIErrors = loc.consecutiveAPIErrors + 1
    /\ gh'.deliveries = gh.deliveries
    /\ ret' = ret
    /\ pc' \in {"l_test", "l_done"}
    /\ Len(NewEvents) = IF loc'.consecutiveAPIErrors = MaxAPIErrors THEN 2 ELSE 1
    /\ NewEvents[1].type = "error"
    /\ Len(NewEvents) = 2 => NewEvents[2].type = "complete" /\ pc' = "l_done"

\* C39: a failed API call leaves the loop state untouched except for the
\* error counter: the iteration counter, the history, the facts and the
\* baseline are unchanged, nothing is sent to the session, and it publishes
\* an error event and, on the third consecutive failure, the complete event.
C39_FailedCallTouchesOnlyErrorCounter ==
    [][ApiFailStep => FailedCallFrame /\ loc'.i = loc.i]_vars

-----------------------------------------------------------------------------
(* More properties of the broker.                                          *)

\* the place of the event with this id in the order of publication
PlaceOf(id) == CHOOSE k \in DOMAIN gh.published : gh.published[k].id = id

\* the replayed task_info of s, if there was one
ReplayOf(s) ==
    IF gh.replayed[s] = NoPayload THEN <<>> ELSE <<gh.replayed[s]>>

\* C38: all that the queue of a subscriber ever held is the replayed
\* task_info, if one was retained when it subscribed, followed by events
\* published after the subscriber was added, each at most once and in the
\* order of their publication; so the replayed task_info, published before,
\* is not among them.
C38_QueueIsSubsequenceOfPublished ==
    \A s \in Subscribers :
        LET enq == gh.enq[s]
        IN  /\ \A k \in DOMAIN enq :
                   /\ \E n \in DOMAIN gh.published : gh.published[n].id = enq[k]
                   /\ PlaceOf(enq[k]) > gh.addedAfter[s]
            /\ \A j, k \in DOMAIN enq :
                   j < k => PlaceOf(enq[j]) < PlaceOf(enq[k])
            /\ Held(s) = ReplayOf(s) \o
                   [k \in DOMAIN enq |-> Payload(gh.published[PlaceOf(enq[k])])]
            /\ \A k \in DOMAIN gh.published :
                   Payload(gh.published[k]) = gh.replayed[s] => k <= gh.addedAfter[s]

\* C38: a subscriber was given a replayed task_info, which it received, and
\* then a live event that is a task_info too; the two were published by two
\* goroutines in the order opposite to that of their calls
C38_Witness ==
    \E s \in Subscribers :
        /\ gh.replayed[s] # NoPayload
        /\ Len(gh.enq[s]) >= 1
        /\ Len(loc[s].got) >= 1
        /\ \E k \in DOMAIN gh.published :
               /\ k > gh.addedAfter[s]
               /\ gh.published[k].type = "task_info"
        /\ \E j, k \in DOMAIN gh.published :
               j < k /\ gh.published[j].id > gh.published[k].id

\* a call of the unsubscribe function of s returns in this step
UnsubscribeStep(s) == gh'.unsubs[s] = gh.unsubs[s] + 1

\* C40: a second or later call of the unsubscribe function finds no
\* matching queue: it closes nothing, does not panic, and leaves the
\* subscriber list and every queue as they were; the channel was closed
\* once, by the first call.
C40_UnsubscribeTwiceIsSafe ==
    /\ [](~gh.panic)
    /\ [](\A s \in Subscribers : gh.closes[s] <= 1)
    /\ [][\A s \in Subscribers :
            UnsubscribeStep(s) /\ gh.unsubs[s] >= 1 =>
                /\ IndexOf(env.clients, s) = 0
                /\ env'.clients = env.clients
                /\ hist' = hist
                /\ gh'.closes = gh.closes
                /\ pc' = pc]_vars

\* C40: a client has called its unsubscribe function twice while another
\* client, still subscribed, has an event in its queue
C40_Witness ==
    \E s, t \in Subscribers :
        /\ s # t
        /\ gh.unsubs[s] = 2
        /\ gh.closes[s] = 1
        /\ env.clients = <<t>>
        /\ hist[t].buf # <<>>
        /\ ~hist[t].closed

-----------------------------------------------------------------------------
(* Properties of the /events handler.                                      *)

\* C32: whatever the Publish calls that run beside it, the first frame a
\* handler writes is the connected frame; the frames after it are the
\* messages of its queue in the queue's order, so the replayed task_info,
\* if one was retained, is the second frame and the live events follow; the
\* connected frame is written once.
C32_ConnectedIsFirstFrame ==
    \A s \in Subscribers :
        LET frames == loc[s].frames
        IN  /\ loc[s].got # <<>> => frames # <<>>
            /\ frames # <<>> =>
                  /\ Head(frames) = ConnectedFrame
                  /\ Tail(frames) = loc[s].got
                  /\ \A k \in DOMAIN loc[s].got : loc[s].got[k] # ConnectedFrame
                  /\ gh.replayed[s] # NoPayload /\ Len(frames) >= 2 =>
                        frames[2] = gh.replayed[s]
            /\ pc[s] \in {"h_loop", "h_defer", "h_done"} => frames # <<>>

\* C32: a handler that subscribed between two Publish calls has written
\* the connected frame, the replayed task_info and a live event, in this
\* order
C32_Witness ==
    \E s \in Subscribers :
        /\ Len(loc[s].frames) = 3
        /\ gh.replayed[s] # NoPayload
        /\ loc[s].frames[2] = gh.replayed[s]
        /\ gh.enq[s] # <<>>
        /\ gh.addedAfter[s] = 1

-----------------------------------------------------------------------------
(* Properties of runWithCleanup.                                           *)

\* C31: with TERMINATE_WHEN_QUIT on, the session does not exist when the
\* process has exited, whether the loop returned or a signal arrived, at
\* whatever point of SendAndCaptureWithRecovery or EnsureClaudeSession.
C31_NoSessionAfterExit == Exited => ~(env.server /\ env.sess)

=============================================================================
